---- MODULE Spec2Model ----
(***************************************************************************)
(* SlackCheers celebration dispatch core: the due-channel selector, the    *)
(* per-channel dispatch pass, the scheduler tick and the manual            *)
(* "dispatch now" trigger, over the dispatch log.                          *)
(***************************************************************************)
EXTENDS Integers, Sequences, FiniteSets, Bags, TLC

VARIABLES
    clock,      \* wall clock, seconds since 1970-01-01T00:00:00Z
    channels,   \* table workspace_channels: channel id -> row
    log,        \* table celebration_dispatch_log: sequence of rows
    run,        \* per process: position and locals of RunDueCelebrations / RunWorkspaceNow
    posted,     \* history: bag of the PostMessage calls that succeeded
    attempts,   \* history: bag of the finished per-channel dispatch passes
    manualRuns, \* number of RunWorkspaceNow calls started so far
    loop,       \* Scheduler.Run: its context, its ticker channel, whether it returned
    people,     \* table people as the inbound DM flow reads and writes it
    calls,      \* per ProcessEvent call: its position and locals
    occurrence, \* the last nextOccurrence call: its arguments and its result
    onboarding, \* table onboarding_dm_log, the onboarding DMs delivered, and the
                \* SendOnboardingDMs call in progress
    directory   \* the last mergePeopleWithWorkspaceMembers call: arguments and result

vars == <<clock, channels, log, run, posted, attempts, manualRuns, loop,
          people, calls, occurrence, onboarding, directory>>

----------------------------------------------------------------------------
(* Bounds of the model *)

\* instants range over the days StartDay .. StartDay + MaxDay
MaxDay == 1
\* number of manual dispatch-now requests
MaxManual == 2
\* number of manual dispatch-now requests that may overlap scheduler ticks
MaxOverlap == 1
\* number of inbound ProcessEvent calls, which may overlap
MaxCalls == 2

\* number of lines of a message text
MaxLines == 2

\* number of years after FirstYear that reference dates are taken from
MaxYears == 1

----------------------------------------------------------------------------
(* Calendar: what time.Time (Go) and timestamptz/date (Postgres) compute *)

SecondsPerDay == 24 * 60 * 60

\* days since 1970-01-01 of the proleptic Gregorian date y-m-d
DaysFromCivil(y, m, d) ==
    LET yy  == IF m <= 2 THEN y - 1 ELSE y
        era == yy \div 400
        yoe == yy - era * 400
        mp  == IF m > 2 THEN m - 3 ELSE m + 9
        doy == (153 * mp + 2) \div 5 + d - 1
        doe == yoe * 365 + yoe \div 4 - yoe \div 100 + doy
    IN  era * 146097 + doe - 719468

\* the Gregorian date of a day number: localNow.Year(), Month(), Day()
CivilFromDays(z) ==
    LET zz  == z + 719468
        era == zz \div 146097
        doe == zz - era * 146097
        yoe == (doe - doe \div 1460 + doe \div 36524 - doe \div 146096) \div 365
        doy == doe - (365 * yoe + yoe \div 4 - yoe \div 100)
        mp  == (5 * doy + 2) \div 153
        d   == doy - (153 * mp + 2) \div 5 + 1
        m   == IF mp < 10 THEN mp + 3 ELSE mp - 9
        y   == yoe + era * 400
    IN  [year |-> IF m <= 2 THEN y + 1 ELSE y, month |-> m, day |-> d]

\* the zones the channels use; offsets in force from 2024-02-28 to 2024-03-02
Zones == {"UTC", "Asia/Tokyo", "America/New_York"}

\* a zone abbreviation that timezone(text, timestamptz) of Postgres resolves and
\* time.LoadLocation does not
PgOnlyZones == {"PST"}

\* the name time.LoadLocation resolves to the process's own zone (here UTC) and
\* Postgres does not know
GoOnlyZones == {"Local"}

\* a name that neither resolves
UnknownZones == {"Mars/Phobos"}

\* timezone(wc.timezone, $1) evaluates without raising "time zone not recognized"
PgTimezoneOK(tz) == tz \in Zones \cup PgOnlyZones

\* time.LoadLocation(name) followed by now.In(loc), and timezone(name, $1):
\* seconds east of UTC
UTCOffset(tz) ==
    CASE tz = "UTC"              -> 0
      [] tz = "Asia/Tokyo"       -> 9 * 3600
      [] tz = "America/New_York" -> 0 - 5 * 3600
      [] tz = "PST"              -> 0 - 8 * 3600
      [] tz = "Local"            -> 0

\* now.In(loc): the local wall-clock reading of instant t in zone tz
LocalSeconds(tz, t) == t + UTCOffset(tz)

LocalHour(tz, t)   == (LocalSeconds(tz, t) % SecondsPerDay) \div 3600
LocalMinute(tz, t) == (LocalSeconds(tz, t) % 3600) \div 60

\* (timezone(wc.timezone, $1))::date, as a day number
LocalDate(tz, t) == LocalSeconds(tz, t) \div SecondsPerDay

\* localNow.Year(), localNow.Month(), localNow.Day()
LocalCivil(tz, t) == CivilFromDays(LocalDate(tz, t))

\* dispatchDate.Format("2006-01-02"): the text sent to the log insert
FormatDate(tz, t) ==
    LET c == LocalCivil(tz, t) IN <<c.year, c.month, c.day>>

\* the DATE value Postgres stores for that text
ParseDate(txt) == DaysFromCivil(txt[1], txt[2], txt[3])

----------------------------------------------------------------------------
(* Instants the ticker and time.Now() deliver *)

StartDay == DaysFromCivil(2024, 2, 28)

\* second of the UTC day: 09:00:00, 23:00:00, 23:00:30
SecondsOfDay == {9 * 3600, 23 * 3600, 23 * 3600 + 30}

Instants ==
    {(StartDay + d) * SecondsPerDay + s : d \in 0..MaxDay, s \in SecondsOfDay}

\* the instants of the first day, for the runs with a concurrent manual trigger
FirstDayInstants == {StartDay * SecondsPerDay + s : s \in SecondsOfDay}

----------------------------------------------------------------------------
(* Tables *)

Workspaces == {"w1", "w2"}
ChannelIDs == {"c1", "c2"}
Kinds == {"birthday", "anniversary"}
Procs == {"sched", "manual"}

\* a nullable column: NULL is the empty sequence, a value v is <<v>>
NULL == <<>>
Some(v) == <<v>>

\* table people; name is the rank of display_name in the collation, hire_date a
\* day number
People ==
    { [id |-> "U1", workspace |-> "w1", name |-> 1, optIn |-> TRUE,
       bDay |-> Some(28), bMonth |-> Some(2), bYear |-> NULL,
       hire |-> Some(DaysFromCivil(2020, 2, 28))],
      [id |-> "U2", workspace |-> "w1", name |-> 2, optIn |-> TRUE,
       bDay |-> Some(29), bMonth |-> Some(2), bYear |-> Some(2000),
       hire |-> Some(DaysFromCivil(2021, 3, 2))],
      [id |-> "U3", workspace |-> "w1", name |-> 3, optIn |-> FALSE,
       bDay |-> Some(28), bMonth |-> Some(2), bYear |-> Some(1990),
       hire |-> Some(DaysFromCivil(2019, 2, 28))],
      [id |-> "U4", workspace |-> "w2", name |-> 4, optIn |-> TRUE,
       bDay |-> Some(28), bMonth |-> Some(2), bYear |-> NULL,
       hire |-> NULL],
      [id |-> "U5", workspace |-> "w1", name |-> 5, optIn |-> TRUE,
       bDay |-> NULL, bMonth |-> NULL, bYear |-> NULL,
       hire |-> Some(DaysFromCivil(2022, 2, 28))] }

\* table workspace_channels; posting_time is a TIME, read by EXTRACT(HOUR/MINUTE)
\* name is the rank of slack_channel_name in the collation
ChannelRow(ws, n, h, m, tz, b, a) ==
    [workspace |-> ws, name |-> n, postingHour |-> h, postingMinute |-> m,
     timezone |-> tz, birthdaysEnabled |-> b, anniversariesEnabled |-> a]

\* the channel tables the model starts from: c1 posts at 23:00 UTC, c2 at
\* 08:00 Asia/Tokyo (23:00 UTC of the day before); the enable flags of c2 vary
ChannelTables ==
    { [c \in ChannelIDs |->
         IF c = "c1" THEN ChannelRow("w1", 1, 23, 0, "UTC", TRUE, TRUE)
                     ELSE ChannelRow("w1", 2, 8, 0, "Asia/Tokyo", f, f)]
      : f \in BOOLEAN }

\* channel tables in which the zone of c2 is not one both Postgres and Go
\* resolve; c2 posts at 15:00 (23:00 UTC for "PST"), when c1 is due as well
ZoneChannelTables ==
    { [c \in ChannelIDs |->
         IF c = "c1" THEN ChannelRow("w1", 1, 23, 0, "UTC", TRUE, TRUE)
                     ELSE ChannelRow("w1", 2, 15, 0, tz, TRUE, TRUE)]
      : tz \in PgOnlyZones \cup GoOnlyZones \cup UnknownZones }

----------------------------------------------------------------------------
(* Sequences *)

RECURSIVE SortByName(_)
\* ORDER BY display_name: the rows of S in ascending name order
SortByName(S) ==
    IF S = {} THEN <<>>
    ELSE LET first == CHOOSE x \in S : \A y \in S : x.name <= y.name
         IN  <<first>> \o SortByName(S \ {first})

\* the row orders a SELECT without ORDER BY may deliver
Orderings(S) ==
    {q \in [1..Cardinality(S) -> S] : \A x \in S : \E i \in DOMAIN q : q[i] = x}

Range(q) == {q[i] : i \in DOMAIN q}

----------------------------------------------------------------------------
(* People store queries *)

\* FindBirthdaysByWorkspaceAndDate without the public_celebration_opt_in filter
FindBirthdaysIgnoringOptIn(ws, month, day) ==
    SortByName({p \in People :
        /\ p.workspace = ws
        /\ p.bMonth = Some(month)
        /\ p.bDay = Some(day)})

\* PeopleRepository.FindBirthdaysByWorkspaceAndDate
FindBirthdaysByWorkspaceAndDate(ws, month, day) ==
    SortByName({p \in People :
        /\ p.workspace = ws
        /\ p.optIn = TRUE
        /\ p.bMonth = Some(month)
        /\ p.bDay = Some(day)})

\* PeopleRepository.FindAnniversariesByWorkspaceAndDate
FindAnniversariesByWorkspaceAndDate(ws, month, day, year) ==
    LET rows == SortByName({p \in People :
                    /\ p.workspace = ws
                    /\ p.optIn = TRUE
                    /\ p.hire # NULL
                    /\ CivilFromDays(p.hire[1]).month = month
                    /\ CivilFromDays(p.hire[1]).day = day})
    IN  [i \in DOMAIN rows |->
            [id |-> rows[i].id, years |-> year - CivilFromDays(rows[i].hire[1]).year]]

\* the ids of a sequence of rows, in order
Mentions(rows) == [i \in DOMAIN rows |-> rows[i].id]

\* renderAnniversaryTemplate with the years listed in reverse
renderAnniversaryTemplateYearsReversed(anniversaries) ==
    [users |-> Mentions(anniversaries),
     years |-> [i \in DOMAIN anniversaries |->
                   anniversaries[Len(anniversaries) + 1 - i].years]]

\* renderAnniversaryTemplate: the values substituted for {users} and {years},
\* both appended in one loop over the matched people
renderAnniversaryTemplate(anniversaries) ==
    [users |-> Mentions(anniversaries),
     years |-> [i \in DOMAIN anniversaries |-> anniversaries[i].years]]

----------------------------------------------------------------------------
(* Channel store *)

\* the NOT EXISTS subquery of ListDueChannels
HasLogRow(lg, c, date) ==
    \E i \in DOMAIN lg : lg[i].channel = c /\ lg[i].date = date

\* IsDue without the NOT EXISTS subquery
IsDueIgnoringLog(chs, lg, c, now) ==
    /\ LocalHour(chs[c].timezone, now) = chs[c].postingHour
    /\ LocalMinute(chs[c].timezone, now) = chs[c].postingMinute

\* IsDue with the log looked up under the UTC date of now
IsDueOnUTCDate(chs, lg, c, now) ==
    /\ LocalHour(chs[c].timezone, now) = chs[c].postingHour
    /\ LocalMinute(chs[c].timezone, now) = chs[c].postingMinute
    /\ ~HasLogRow(lg, c, now \div SecondsPerDay)

\* the WHERE clause of WorkspaceRepository.ListDueChannels
IsDue(chs, lg, c, now) ==
    /\ LocalHour(chs[c].timezone, now) = chs[c].postingHour
    /\ LocalMinute(chs[c].timezone, now) = chs[c].postingMinute
    /\ ~HasLogRow(lg, c, LocalDate(chs[c].timezone, now))

\* the query of ListDueChannels evaluates timezone(wc.timezone, $1) on every row
\* of workspace_channels: one unresolvable zone raises an error for the statement
ListDueChannelsQueryOK(chs) == \A c \in DOMAIN chs : PgTimezoneOK(chs[c].timezone)

\* WorkspaceRepository.ListDueChannels: the rows selected (in no promised order)
ListDueChannels(chs, lg, now) == {c \in DOMAIN chs : IsDue(chs, lg, c, now)}

\* WorkspaceRepository.ListChannelsByWorkspace
ListChannelsByWorkspace(chs, ws) ==
    Mentions(SortByName({[id |-> c, name |-> chs[c].name] :
                            c \in {x \in DOMAIN chs : chs[x].workspace = ws}}))

\* MarkChannelDispatched as a plain INSERT into a table without the UNIQUE
\* constraint
MarkChannelDispatchedPlainInsert(lg, c, txt) ==
    [log |-> Append(lg, [channel |-> c, date |-> ParseDate(txt)]), err |-> FALSE]

\* WorkspaceRepository.MarkChannelDispatched:
\* INSERT ... ON CONFLICT (workspace_channel_id, dispatch_date) DO NOTHING
MarkChannelDispatched(lg, c, txt) ==
    IF HasLogRow(lg, c, ParseDate(txt))
    THEN [log |-> lg, err |-> FALSE]
    ELSE [log |-> Append(lg, [channel |-> c, date |-> ParseDate(txt)]), err |-> FALSE]

----------------------------------------------------------------------------
(* State *)

\* channelRunOutcome{}
ZeroOutcome ==
    [birthdayCount |-> 0, anniversaryCount |-> 0,
     birthdayPosted |-> FALSE, anniversaryPosted |-> FALSE]

\* ManualChannelResult, and the PostMessage calls of the pass it reports
ManualChannelResult(c, err, outcome, posts) ==
    [channel |-> c, err |-> err,
     birthdayCount |-> outcome.birthdayCount,
     anniversaryCount |-> outcome.anniversaryCount,
     birthdayPosted |-> outcome.birthdayPosted,
     anniversaryPosted |-> outcome.anniversaryPosted,
     posts |-> posts]

\* ManualDispatchResult{}
ZeroResult ==
    [channelsProcessed |-> 0, channelsWithErrors |-> 0, birthdayPosts |-> 0,
     anniversaryPosts |-> 0, channelDispatches |-> <<>>]

\* a process that is not inside RunDueCelebrations / RunWorkspaceNow; list,
\* attempted, listed and err keep what the last call saw and returned; zoneErr
\* tells that the error is the listing query's "time zone not recognized"
\* posts lists the PostMessage calls the pass in progress has issued; result is
\* the ManualDispatchResult under construction (RunDueCelebrations keeps none:
\* for the scheduler it is a record of what its passes returned)
IdleRun ==
    [pc |-> "idle", id |-> 0, now |-> 0, list |-> <<>>, idx |-> 1,
     birthdays |-> <<>>, anniversaries |-> <<>>,
     attempted |-> <<>>, listed |-> FALSE, err |-> FALSE, zoneErr |-> FALSE,
     outcome |-> ZeroOutcome, posts |-> <<>>, result |-> ZeroResult]

\* inboundEventEnvelope: the type of the envelope and the fields of its event
Envelope(type, evType, channelType, user, subtype, botID, text) ==
    [type |-> type, evType |-> evType, channelType |-> channelType, user |-> user,
     subtype |-> subtype, botID |-> botID, text |-> text]

\* inboundEventEnvelope{}
ZeroEnvelope == Envelope("", "", "", "", "", "", <<>>)

\* the event Slack delivers for a direct message a person wrote to the bot
HumanMessage(u, text) == Envelope("event_callback", "message", "im", u, "", "", text)

\* the Slack users that send direct messages, and the ProcessEvent calls
InboundUsers == {"U7"}
CallIDs == 1..MaxCalls

\* no nextOccurrence call so far
NoOccurrence == [called |-> FALSE, from |-> 0, month |-> 0, day |-> 0, result |-> 0]

\* the members users.list returns for the workspace (bots, deleted users and
\* Slackbot left out), in the order of the listing
WorkspaceMembers == <<"U1", "U2">>

\* SendOnboardingDMs calls of a behaviour
MaxOnboardingRuns == 3

\* no SendOnboardingDMs call in progress
IdleSend ==
    [pc |-> "idle", force |-> FALSE, sentUsers |-> {}, next |-> 1,
     sent |-> 0, skipped |-> 0, failedUsers |-> <<>>]

\* an empty onboarding_dm_log, no DM delivered, no call made
NoOnboarding ==
    [log |-> {},
     dms |-> [i \in DOMAIN WorkspaceMembers |-> 0],
     forced |-> 0, runs |-> 0, call |-> IdleSend, result |-> NULL]

\* no mergePeopleWithWorkspaceMembers call made
NoMerge == [called |-> FALSE, existing |-> <<>>, members |-> <<>>, merged |-> <<>>]

\* a ProcessEvent call that has not started
IdleCall ==
    [pc |-> "idle", user |-> "", text |-> <<>>, parseErr |-> "", parsed |-> NULL,
     profile |-> NULL, existing |-> NULL, in |-> NULL, dm |-> "", err |-> FALSE,
     event |-> ZeroEnvelope]

\* Scheduler.Run before its first select: the context is live, ticker.C is
\* empty; tickInFlight records whether a tick was running when cancel() was called
StartedLoop ==
    [cancelled |-> FALSE, pending |-> FALSE, returned |-> FALSE,
     tickInFlight |-> FALSE]

Init ==
    /\ clock = StartDay * SecondsPerDay
    /\ channels \in ChannelTables
    /\ log = <<>>
    /\ run = [p \in Procs |-> IdleRun]
    /\ posted = EmptyBag
    /\ attempts = EmptyBag
    /\ manualRuns = 0
    /\ loop = StartedLoop
    /\ people = [u \in InboundUsers |-> NULL]
    /\ calls = [k \in CallIDs |-> IdleCall]
    /\ occurrence = NoOccurrence
    /\ onboarding = NoOnboarding
    /\ directory = NoMerge

\* the channel a process is dispatching, and its row
Channel(p) == run[p].list[run[p].idx]
Row(p) == channels[Channel(p)]

\* time.LoadLocation(channel.Timezone) succeeds
LoadLocationOK(tz) == tz \in Zones \cup GoOnlyZones

\* the loop of RunDueCelebrations / RunWorkspaceNow starts on the listed channels
StartRun(p, id, t, list) ==
    [IdleRun EXCEPT !.pc = IF list = <<>> THEN "idle" ELSE "birthdays",
                    !.id = id, !.now = t, !.list = list, !.listed = TRUE,
                    !.result.channelsProcessed = Len(list)]

\* the PostMessage calls of the pass of r when it returns: those that
\* succeeded and the one that failed, if the pass returns from a post
IssuedPosts(r) ==
    r.posts \o ( IF r.pc = "postBirthday" THEN <<"birthday">>
                 ELSE IF r.pc = "postAnniversary" THEN <<"anniversary">>
                 ELSE <<>> )

\* NextResult with a failed pass reported but not counted
NextResultWithoutErrorCount(r, c, ok) ==
    IF ~ok
    THEN [r.result EXCEPT
            !.channelDispatches =
                Append(@, ManualChannelResult(c, TRUE, ZeroOutcome, IssuedPosts(r)))]
    ELSE [r.result EXCEPT
            !.birthdayPosts = IF r.outcome.birthdayPosted THEN @ + 1 ELSE @,
            !.anniversaryPosts = IF r.outcome.anniversaryPosted THEN @ + 1 ELSE @,
            !.channelDispatches =
                Append(@, ManualChannelResult(c, FALSE, r.outcome, IssuedPosts(r)))]

\* the loop body of RunWorkspaceNow after the pass on channel c returned: an
\* error is counted and reported without the outcome, an outcome is counted by
\* its posted flags and reported
NextResult(r, c, ok) ==
    IF ~ok
    THEN [r.result EXCEPT
            !.channelsWithErrors = @ + 1,
            !.channelDispatches =
                Append(@, ManualChannelResult(c, TRUE, ZeroOutcome, IssuedPosts(r)))]
    ELSE [r.result EXCEPT
            !.birthdayPosts = IF r.outcome.birthdayPosted THEN @ + 1 ELSE @,
            !.anniversaryPosts = IF r.outcome.anniversaryPosted THEN @ + 1 ELSE @,
            !.channelDispatches =
                Append(@, ManualChannelResult(c, FALSE, r.outcome, IssuedPosts(r)))]

\* FinishPass with the loop returning the error of a failed pass
FinishPassAbortingOnError(p, ok) ==
    LET r == run[p]
    IN  /\ attempts' = attempts (+) SetToBag({
               [channel |-> Channel(p), by |-> p,
                date |-> LocalDate(Row(p).timezone, r.now), ok |-> ok]})
        /\ run' = [run EXCEPT ![p] =
               [r EXCEPT !.pc = IF r.idx + 1 > Len(r.list) \/ ~ok
                                THEN "idle" ELSE "birthdays",
                         !.idx = r.idx + 1,
                         !.err = ~ok,
                         !.attempted = Append(r.attempted, Channel(p)),
                         !.result = NextResult(r, Channel(p), ok),
                         !.outcome = ZeroOutcome, !.posts = <<>>,
                         !.birthdays = <<>>, !.anniversaries = <<>>]]

\* a pass returned (ok or with an error): the loop logs the error and goes on
\* with the next channel, or returns nil after the last one
FinishPass(p, ok) ==
    LET r == run[p]
    IN  /\ attempts' = attempts (+) SetToBag({
               [channel |-> Channel(p), by |-> p,
                date |-> LocalDate(Row(p).timezone, r.now), ok |-> ok]})
        /\ run' = [run EXCEPT ![p] =
               [r EXCEPT !.pc = IF r.idx + 1 > Len(r.list) THEN "idle" ELSE "birthdays",
                         !.idx = r.idx + 1,
                         !.attempted = Append(r.attempted, Channel(p)),
                         !.result = NextResult(r, Channel(p), ok),
                         !.outcome = ZeroOutcome, !.posts = <<>>,
                         !.birthdays = <<>>, !.anniversaries = <<>>]]

\* a successful PostMessage call
Post(p, kind, users, years) ==
    posted' = posted (+) SetToBag({
        [channel |-> Channel(p), kind |-> kind, by |-> p,
         date |-> LocalDate(Row(p).timezone, run[p].now),
         users |-> users, years |-> years]})

----------------------------------------------------------------------------
(* Scheduler tick and manual trigger *)

\* Scheduler.Run receives a tick at instant t and calls RunDueCelebrations,
\* which lists the due channels (the query may fail: the tick returns the error)
RunDueCelebrations(t) ==
    /\ run["sched"].pc = "idle"
    /\ t > clock
    /\ clock' = t
    /\ \E ok \in BOOLEAN :
         IF ~ok
         THEN run' = [run EXCEPT !["sched"] = [IdleRun EXCEPT !.err = TRUE]]
         ELSE IF ~ListDueChannelsQueryOK(channels)
         THEN run' = [run EXCEPT !["sched"] =
                         [IdleRun EXCEPT !.err = TRUE, !.zoneErr = TRUE]]
         ELSE \E list \in Orderings(ListDueChannels(channels, log, t)) :
                  run' = [run EXCEPT !["sched"] = StartRun("sched", t, t, list)]
    /\ UNCHANGED <<channels, occurrence, onboarding, directory, log, posted, attempts, manualRuns, people, calls>>

\* WorkspaceHandler.DispatchCelebrationsNow calls RunWorkspaceNow(ws, time.Now()),
\* which lists every channel of the workspace
RunWorkspaceNow(ws, t) ==
    /\ run["manual"].pc = "idle"
    /\ manualRuns < MaxManual
    /\ t >= clock
    /\ clock' = t
    /\ manualRuns' = manualRuns + 1
    /\ \E ok \in BOOLEAN :
         IF ok
         THEN run' = [run EXCEPT !["manual"] =
                  StartRun("manual", manualRuns + 1, t,
                           ListChannelsByWorkspace(channels, ws))]
         ELSE run' = [run EXCEPT !["manual"] = [IdleRun EXCEPT !.err = TRUE]]
    /\ UNCHANGED <<channels, occurrence, onboarding, directory, log, posted, attempts, loop, people, calls>>

----------------------------------------------------------------------------
(* CelebrationService.runChannelCelebrationWithResult, one store or Slack call
   per step *)

\* FindBirthdays with the pass going on to the anniversaries without posting
\* the birthday message
FindBirthdaysWithoutPost(p) ==
    /\ run[p].pc = "birthdays"
    /\ LET ch == Row(p)
           today == LocalCivil(ch.timezone, run[p].now)
           found == FindBirthdaysByWorkspaceAndDate(ch.workspace, today.month, today.day)
       IN  IF ~LoadLocationOK(ch.timezone)
           THEN FinishPass(p, FALSE)
           ELSE IF ~ch.birthdaysEnabled
           THEN /\ run' = [run EXCEPT ![p].pc = "anniversaries"]
                /\ UNCHANGED attempts
           ELSE \E ok \in BOOLEAN :
                  IF ok
                  THEN /\ run' = [run EXCEPT
                              ![p].pc = "anniversaries",
                              ![p].outcome.birthdayCount = Len(found),
                              ![p].birthdays = Mentions(found)]
                       /\ UNCHANGED attempts
                  ELSE FinishPass(p, FALSE)
    /\ UNCHANGED <<clock, channels, occurrence, onboarding, directory, log, posted, manualRuns, loop, people, calls>>

\* time.LoadLocation, then FindBirthdaysByWorkspaceAndDate if birthdays are enabled
FindBirthdays(p) ==
    /\ run[p].pc = "birthdays"
    /\ LET ch == Row(p)
           today == LocalCivil(ch.timezone, run[p].now)
           found == FindBirthdaysByWorkspaceAndDate(ch.workspace, today.month, today.day)
       IN  IF ~LoadLocationOK(ch.timezone)
           THEN FinishPass(p, FALSE)
           ELSE IF ~ch.birthdaysEnabled
           THEN /\ run' = [run EXCEPT ![p].pc = "anniversaries"]
                /\ UNCHANGED attempts
           ELSE \E ok \in BOOLEAN :
                  IF ok
                  THEN /\ run' = [run EXCEPT
                              ![p].pc = IF found = <<>> THEN "anniversaries"
                                        ELSE "postBirthday",
                              ![p].outcome.birthdayCount = Len(found),
                              ![p].birthdays = Mentions(found)]
                       /\ UNCHANGED attempts
                  ELSE FinishPass(p, FALSE)
    /\ UNCHANGED <<clock, channels, occurrence, onboarding, directory, log, posted, manualRuns, loop, people, calls>>

\* PostBirthday with the pass marking the channel dispatched although the post failed
PostBirthdayMarkingOnFailure(p) ==
    /\ run[p].pc = "postBirthday"
    /\ \E ok \in BOOLEAN :
         IF ok
         THEN /\ Post(p, "birthday", run[p].birthdays, <<>>)
              /\ run' = [run EXCEPT ![p].pc = "anniversaries",
                                    ![p].outcome.birthdayPosted = TRUE,
                                    ![p].posts = Append(@, "birthday")]
              /\ UNCHANGED <<attempts, log>>
         ELSE /\ FinishPass(p, FALSE)
              /\ log' = MarkChannelDispatched(log, Channel(p),
                            FormatDate(Row(p).timezone, run[p].now)).log
              /\ UNCHANGED posted
    /\ UNCHANGED <<clock, channels, occurrence, onboarding, directory, manualRuns, loop, people, calls>>

\* PostMessage of the rendered birthday template
PostBirthday(p) ==
    /\ run[p].pc = "postBirthday"
    /\ \E ok \in BOOLEAN :
         IF ok
         THEN /\ Post(p, "birthday", run[p].birthdays, <<>>)
              /\ run' = [run EXCEPT ![p].pc = "anniversaries",
                                    ![p].outcome.birthdayPosted = TRUE,
                                    ![p].posts = Append(@, "birthday")]
              /\ UNCHANGED attempts
         ELSE /\ FinishPass(p, FALSE)
              /\ UNCHANGED posted
    /\ UNCHANGED <<clock, channels, occurrence, onboarding, directory, log, manualRuns, loop, people, calls>>

\* FindAnniversaries with the anniversary step left out by a pass that posted a
\* birthday message
FindAnniversariesUnlessBirthdayPosted(p) ==
    /\ run[p].pc = "anniversaries"
    /\ LET ch == Row(p)
           today == LocalCivil(ch.timezone, run[p].now)
           found == FindAnniversariesByWorkspaceAndDate(
                        ch.workspace, today.month, today.day, today.year)
       IN  IF ~ch.anniversariesEnabled \/ run[p].outcome.birthdayPosted
           THEN /\ run' = [run EXCEPT ![p].pc = "mark"]
                /\ UNCHANGED attempts
           ELSE \E ok \in BOOLEAN :
                  IF ok
                  THEN /\ run' = [run EXCEPT
                              ![p].pc = IF found = <<>> THEN "mark"
                                        ELSE "postAnniversary",
                              ![p].outcome.anniversaryCount = Len(found),
                              ![p].anniversaries = found]
                       /\ UNCHANGED attempts
                  ELSE FinishPass(p, FALSE)
    /\ UNCHANGED <<clock, channels, occurrence, onboarding, directory, log, posted, manualRuns, loop, people, calls>>

\* FindAnniversariesByWorkspaceAndDate if anniversaries are enabled
FindAnniversaries(p) ==
    /\ run[p].pc = "anniversaries"
    /\ LET ch == Row(p)
           today == LocalCivil(ch.timezone, run[p].now)
           found == FindAnniversariesByWorkspaceAndDate(
                        ch.workspace, today.month, today.day, today.year)
       IN  IF ~ch.anniversariesEnabled
           THEN /\ run' = [run EXCEPT ![p].pc = "mark"]
                /\ UNCHANGED attempts
           ELSE \E ok \in BOOLEAN :
                  IF ok
                  THEN /\ run' = [run EXCEPT
                              ![p].pc = IF found = <<>> THEN "mark"
                                        ELSE "postAnniversary",
                              ![p].outcome.anniversaryCount = Len(found),
                              ![p].anniversaries = found]
                       /\ UNCHANGED attempts
                  ELSE FinishPass(p, FALSE)
    /\ UNCHANGED <<clock, channels, occurrence, onboarding, directory, log, posted, manualRuns, loop, people, calls>>

\* PostMessage of the rendered anniversary template
PostAnniversary(p) ==
    /\ run[p].pc = "postAnniversary"
    /\ \E ok \in BOOLEAN :
         IF ok
         THEN /\ Post(p, "anniversary",
                      renderAnniversaryTemplate(run[p].anniversaries).users,
                      renderAnniversaryTemplate(run[p].anniversaries).years)
              /\ run' = [run EXCEPT ![p].pc = "mark",
                                    ![p].outcome.anniversaryPosted = TRUE,
                                    ![p].posts = Append(@, "anniversary")]
              /\ UNCHANGED attempts
         ELSE /\ FinishPass(p, FALSE)
              /\ UNCHANGED posted
    /\ UNCHANGED <<clock, channels, occurrence, onboarding, directory, log, manualRuns, loop, people, calls>>

\* MarkDispatched with the log written only by a pass that posted something
MarkDispatchedOnlyIfPosted(p) ==
    /\ run[p].pc = "mark"
    /\ \E ok \in BOOLEAN :
         LET res == MarkChannelDispatched(log, Channel(p),
                        FormatDate(Row(p).timezone, run[p].now))
         IN  IF run[p].birthdays = <<>> /\ run[p].anniversaries = <<>>
             THEN /\ UNCHANGED log
                  /\ FinishPass(p, TRUE)
             ELSE IF ok
             THEN /\ log' = res.log
                  /\ FinishPass(p, ~res.err)
             ELSE /\ UNCHANGED log
                  /\ FinishPass(p, FALSE)
    /\ UNCHANGED <<clock, channels, occurrence, onboarding, directory, posted, manualRuns, loop, people, calls>>

\* MarkDispatched with the log written by the scheduler's passes only
MarkDispatchedBySchedulerOnly(p) ==
    /\ run[p].pc = "mark"
    /\ \E ok \in BOOLEAN :
         LET res == MarkChannelDispatched(log, Channel(p),
                        FormatDate(Row(p).timezone, run[p].now))
         IN  IF ok
             THEN /\ log' = IF p = "sched" THEN res.log ELSE log
                  /\ FinishPass(p, ~res.err)
             ELSE /\ UNCHANGED log
                  /\ FinishPass(p, FALSE)
    /\ UNCHANGED <<clock, channels, occurrence, onboarding, directory, posted, manualRuns, loop, people, calls>>

\* MarkChannelDispatched(channel.ID, localNow), then return the outcome
MarkDispatched(p) ==
    /\ run[p].pc = "mark"
    /\ \E ok \in BOOLEAN :
         LET res == MarkChannelDispatched(log, Channel(p),
                        FormatDate(Row(p).timezone, run[p].now))
         IN  IF ok
             THEN /\ log' = res.log
                  /\ FinishPass(p, ~res.err)
             ELSE /\ UNCHANGED log
                  /\ FinishPass(p, FALSE)
    /\ UNCHANGED <<clock, channels, occurrence, onboarding, directory, posted, manualRuns, loop, people, calls>>

----------------------------------------------------------------------------
(* Scheduler.Run: a select over ctx.Done() and ticker.C *)

\* the runtime timer sends on ticker.C, a channel of capacity one; a tick that
\* finds the channel full is dropped
TickerFire ==
    /\ ~loop.returned
    /\ ~loop.pending
    /\ loop' = [loop EXCEPT !.pending = TRUE]
    /\ UNCHANGED <<clock, channels, occurrence, onboarding, directory, log, run, posted, attempts, manualRuns, people, calls>>

\* App.Run's cancel(), or the cancellation of the parent context
Cancel ==
    /\ ~loop.cancelled
    /\ loop' = [loop EXCEPT !.cancelled = TRUE,
                            !.tickInFlight = (run["sched"].pc # "idle")]
    /\ UNCHANGED <<clock, channels, occurrence, onboarding, directory, log, run, posted, attempts, manualRuns, people, calls>>

\* SchedulerTick with the tick started in a goroutine of its own, so that the
\* loop is back at its select while the tick runs
SchedulerTickSpawning(t) ==
    /\ ~loop.returned
    /\ loop.pending
    /\ loop' = [loop EXCEPT !.pending = FALSE]
    /\ t > clock
    /\ clock' = t
    /\ \E list \in Orderings(ListDueChannels(channels, log, t)) :
           run' = [run EXCEPT !["sched"] = StartRun("sched", t, t, list)]
    /\ UNCHANGED <<channels, occurrence, onboarding, directory, log, posted, attempts, manualRuns, people, calls>>

\* case now := <-ticker.C: the select takes the pending tick (whether or not
\* ctx.Done() is ready as well) and calls RunDueCelebrations synchronously
SchedulerTick(t) ==
    /\ ~loop.returned
    /\ loop.pending
    /\ loop' = [loop EXCEPT !.pending = FALSE]
    /\ RunDueCelebrations(t)

\* SchedulerReturn with the context looked at only when a tick arrives
SchedulerReturnOnTick ==
    /\ run["sched"].pc = "idle"
    /\ ~loop.returned
    /\ loop.cancelled
    /\ loop.pending
    /\ loop' = [loop EXCEPT !.returned = TRUE]
    /\ UNCHANGED <<clock, channels, occurrence, onboarding, directory, log, run, posted, attempts, manualRuns, people, calls>>

\* SchedulerReturn with Run returning also after a tick that failed
SchedulerReturnAfterFailedTick ==
    /\ run["sched"].pc = "idle"
    /\ ~loop.returned
    /\ loop.cancelled \/ run["sched"].err
    /\ loop' = [loop EXCEPT !.returned = TRUE]
    /\ UNCHANGED <<clock, channels, occurrence, onboarding, directory, log, run, posted, attempts, manualRuns, people, calls>>

\* case <-ctx.Done(): the select, reached when no tick is running, returns
SchedulerReturn ==
    /\ run["sched"].pc = "idle"
    /\ ~loop.returned
    /\ loop.cancelled
    /\ loop' = [loop EXCEPT !.returned = TRUE]
    /\ UNCHANGED <<clock, channels, occurrence, onboarding, directory, log, run, posted, attempts, manualRuns, people, calls>>

----------------------------------------------------------------------------
(* Inbound direct messages: SlackInboundService.ProcessEvent *)

\* a string is a sequence of tokens, a token being a blank " " or a word
RECURSIVE TrimLeft(_)
TrimLeft(str) ==
    IF str # <<>> /\ Head(str) = " " THEN TrimLeft(Tail(str)) ELSE str

RECURSIVE TrimRight(_)
TrimRight(str) ==
    IF str # <<>> /\ str[Len(str)] = " "
    THEN TrimRight(SubSeq(str, 1, Len(str) - 1)) ELSE str

\* strings.TrimSpace
TrimSpace(str) == TrimRight(TrimLeft(str))

\* fallbackString(values...): the first value that is not blank, trimmed
RECURSIVE fallbackString(_)
fallbackString(values) ==
    IF values = <<>> THEN <<>>
    ELSE IF TrimSpace(Head(values)) # <<>> THEN TrimSpace(Head(values))
    ELSE fallbackString(Tail(values))

----------------------------------------------------------------------------
(* The text of a direct message and the patterns of the parser *)

\* the text of a message is a sequence of tokens: a blank, a newline, a
\* punctuation character, a run of letters (and underscores), a run of digits
Sp == [t |-> "sp", s |-> " ", d |-> <<>>]
Nl == [t |-> "nl", s |-> "\n", d |-> <<>>]
Sym(c) == [t |-> "sym", s |-> c, d |-> <<>>]
Word(w) == [t |-> "w", s |-> w, d |-> <<>>]
Num(digits) == [t |-> "n", s |-> "", d |-> digits]

\* \s of the patterns, and the white space of strings.TrimSpace
IsSpace(tok) == tok.t \in {"sp", "nl"}

\* strconv.Atoi of a run of digits
RECURSIVE Atoi(_)
Atoi(digits) ==
    IF digits = <<>> THEN 0
    ELSE 10 * Atoi(SubSeq(digits, 1, Len(digits) - 1)) + digits[Len(digits)]

\* strings.TrimSpace of a text
RECURSIVE TrimText(_)
TrimText(text) ==
    IF text = <<>> THEN text
    ELSE IF IsSpace(Head(text)) THEN TrimText(Tail(text))
    ELSE IF IsSpace(text[Len(text)]) THEN TrimText(SubSeq(text, 1, Len(text) - 1))
    ELSE text

\* strings.Split(text, "\n")
RECURSIVE Split(_)
Split(text) ==
    IF \A i \in DOMAIN text : text[i] # Nl THEN <<text>>
    ELSE LET i == CHOOSE j \in DOMAIN text :
                      text[j] = Nl /\ \A h \in 1..(j - 1) : text[h] # Nl
         IN  <<SubSeq(text, 1, i - 1)>> \o Split(SubSeq(text, i + 1, Len(text)))

\* the index of the first token at or after i that is not white space
RECURSIVE SkipSpace(_, _)
SkipSpace(text, i) ==
    IF i <= Len(text) /\ IsSpace(text[i]) THEN SkipSpace(text, i + 1) ELSE i

\* strings.ToLower, on the words of the model
ToLower(w) ==
    CASE w = "March" -> "march"
      [] w = "Alpha" -> "alpha"
      [] w = "Beta"  -> "beta"
      [] w = "Saved" -> "saved"
      [] w = "U1"    -> "u1"
      [] w = "U2"    -> "u2"
      [] w = "U3"    -> "u3"
      [] OTHER -> w

\* [a-z]+ under (?i): a run of letters
IsLetters(tok) == tok.t = "w" /\ tok.s \notin {"hire_date", "start_date", "work_start"}

\* ([0-3]?\d) followed by something that is not a digit
IsDayDigits(tok) ==
    /\ tok.t = "n"
    /\ \/ Len(tok.d) = 1
       \/ Len(tok.d) = 2 /\ tok.d[1] \in 0..3

\* ([01]?\d): the digits of the run that the pattern takes
MonthDigits(tok) ==
    IF Len(tok.d) >= 2 /\ tok.d[1] \in 0..1 THEN SubSeq(tok.d, 1, 2)
    ELSE SubSeq(tok.d, 1, 1)

\* [/.-]
IsDateSep(tok) == tok.t = "sym" /\ tok.s \in {"/", ".", "-"}

\* [:=-]
IsAssign(tok) == tok.t = "sym" /\ tok.s \in {":", "=", "-"}

\* namedDatePattern.FindStringSubmatch(line):
\* ^/?\s*([a-z]+)\s+([0-3]?\d)(?:\s*,\s*(\d{4}))?\s*$
namedDatePattern(line) ==
    LET n      == Len(line)
        i0     == IF n >= 1 /\ line[1] = Sym("/") THEN 2 ELSE 1
        iWord  == SkipSpace(line, i0)
        iDay   == SkipSpace(line, iWord + 1)
        iComma == SkipSpace(line, iDay + 1)
        iYear  == SkipSpace(line, iComma + 1)
        iEnd   == SkipSpace(line, iYear + 1)
        head   == /\ iWord <= n /\ IsLetters(line[iWord])
                  /\ iDay > iWord + 1
                  /\ iDay <= n /\ IsDayDigits(line[iDay])
        year   == /\ iComma <= n /\ line[iComma] = Sym(",")
                  /\ iYear <= n /\ line[iYear].t = "n" /\ Len(line[iYear].d) = 4
                  /\ iEnd = n + 1
    IN  IF head /\ iComma = n + 1
        THEN [matched |-> TRUE, m1 |-> line[iWord].s, m2 |-> line[iDay].d, m3 |-> <<>>]
        ELSE IF head /\ year
        THEN [matched |-> TRUE, m1 |-> line[iWord].s, m2 |-> line[iDay].d,
              m3 |-> line[iYear].d]
        ELSE [matched |-> FALSE, m1 |-> "", m2 |-> <<>>, m3 |-> <<>>]

\* \bword\b at token i, for a word of the set
IsKeyword(text, i, words) ==
    /\ i \in DOMAIN text
    /\ text[i].t = "w"
    /\ ToLower(text[i].s) \in words
    /\ i > 1 => text[i - 1].t # "n"
    /\ i < Len(text) => text[i + 1].t # "n"

\* \s*[:=-]?\s* from token i: the index of the token that follows
AfterAssign(text, i) ==
    LET j == SkipSpace(text, i)
    IN  IF j <= Len(text) /\ IsAssign(text[j]) THEN SkipSpace(text, j + 1) ELSE j

NoMatch == [matched |-> FALSE, m1 |-> <<>>, m2 |-> <<>>, m3 |-> <<>>]

\* ([0-3]?\d)[/.-]([01]?\d)(?:[/.-](\d{4}))? from token j; anchored, \s*$ follows
BirthdayDigitsAt(text, j, anchored) ==
    LET n     == Len(text)
        head  == /\ j + 2 <= n
                 /\ IsDayDigits(text[j])
                 /\ IsDateSep(text[j + 1])
                 /\ text[j + 2].t = "n"
        mon   == MonthDigits(text[j + 2])
        whole == Len(mon) = Len(text[j + 2].d)
        year  == /\ whole
                 /\ j + 4 <= n
                 /\ IsDateSep(text[j + 3])
                 /\ text[j + 4].t = "n"
                 /\ IF anchored
                    THEN Len(text[j + 4].d) = 4 /\ SkipSpace(text, j + 5) = n + 1
                    ELSE Len(text[j + 4].d) >= 4
    IN  IF ~head THEN NoMatch
        ELSE IF year
        THEN [matched |-> TRUE, m1 |-> text[j].d, m2 |-> mon,
              m3 |-> SubSeq(text[j + 4].d, 1, 4)]
        ELSE IF anchored /\ ~(whole /\ SkipSpace(text, j + 3) = n + 1) THEN NoMatch
        ELSE [matched |-> TRUE, m1 |-> text[j].d, m2 |-> mon, m3 |-> <<>>]

\* birthdayPattern.FindStringSubmatch(clean): the leftmost match of
\* \bbirthday\b\s*[:=-]?\s*([0-3]?\d)[/.-]([01]?\d)(?:[/.-](\d{4}))?
birthdayPattern(text) ==
    LET At(i) == BirthdayDigitsAt(text, AfterAssign(text, i + 1), FALSE)
        starts == {i \in DOMAIN text :
                      IsKeyword(text, i, {"birthday"}) /\ At(i).matched}
    IN  IF starts = {} THEN NoMatch
        ELSE At(CHOOSE i \in starts : \A j \in starts : i <= j)

\* onlyBirthday.FindStringSubmatch(clean):
\* ^\s*([0-3]?\d)[/.-]([01]?\d)(?:[/.-](\d{4}))?\s*$
onlyBirthday(text) == BirthdayDigitsAt(text, SkipSpace(text, 1), TRUE)

\* (\d{4}-\d{2}-\d{2}) from token j; anchored, \s*$ follows
HireDigitsAt(text, j, anchored) ==
    LET n  == Len(text)
        ok == /\ j + 4 <= n
              /\ text[j].t = "n" /\ Len(text[j].d) = 4
              /\ text[j + 1] = Sym("-")
              /\ text[j + 2].t = "n" /\ Len(text[j + 2].d) = 2
              /\ text[j + 3] = Sym("-")
              /\ text[j + 4].t = "n"
              /\ IF anchored
                 THEN Len(text[j + 4].d) = 2 /\ SkipSpace(text, j + 5) = n + 1
                 ELSE Len(text[j + 4].d) >= 2
    IN  IF ok
        THEN [matched |-> TRUE, m1 |-> text[j].d, m2 |-> text[j + 2].d,
              m3 |-> SubSeq(text[j + 4].d, 1, 2)]
        ELSE NoMatch

\* \b(?:hire[_ ]?date|start[_ ]?date|work[_ ]?start)\b at token i: the index of
\* the token after the keyword, 0 if the keyword does not stand at i
HireKeywordEnd(text, i) ==
    IF IsKeyword(text, i, {"hire_date", "hiredate", "start_date", "startdate",
                           "work_start", "workstart"})
    THEN i + 1
    ELSE IF /\ i + 2 <= Len(text)
            /\ text[i].t = "w" /\ text[i + 1] = Sp /\ text[i + 2].t = "w"
            /\ <<ToLower(text[i].s), ToLower(text[i + 2].s)>> \in
                   {<<"hire", "date">>, <<"start", "date">>, <<"work", "start">>}
            /\ i > 1 => text[i - 1].t # "n"
            /\ i + 2 < Len(text) => text[i + 3].t # "n"
    THEN i + 3
    ELSE 0

\* hirePattern.FindStringSubmatch(clean): the leftmost match; the date as the
\* digits of its year, month and day
hirePattern(text) ==
    LET At(i) == HireDigitsAt(text, AfterAssign(text, HireKeywordEnd(text, i)), FALSE)
        starts == {i \in DOMAIN text : HireKeywordEnd(text, i) # 0 /\ At(i).matched}
    IN  IF starts = {} THEN NoMatch
        ELSE At(CHOOSE i \in starts : \A j \in starts : i <= j)

\* onlyHireDate.FindStringSubmatch(clean): ^\s*(\d{4}-\d{2}-\d{2})\s*$
onlyHireDate(text) == HireDigitsAt(text, SkipSpace(text, 1), TRUE)

\* time.Parse("2006-01-02", ...) of the digits of a matched date: any year of
\* four digits, a month of 1..12 and a day that the month has
timeParse(m) ==
    LET year  == Atoi(m.m1)
        month == Atoi(m.m2)
        day   == Atoi(m.m3)
        days  == DaysFromCivil(year, month, day)
    IN  IF /\ month \in 1..12
           /\ day >= 1
           /\ CivilFromDays(days) = [year |-> year, month |-> month, day |-> day]
        THEN [ok |-> TRUE, days |-> days]
        ELSE [ok |-> FALSE, days |-> 0]

\* monthNames
monthNames ==
    [jan |-> 1, january |-> 1, feb |-> 2, february |-> 2, mar |-> 3, march |-> 3,
     apr |-> 4, april |-> 4, may |-> 5, jun |-> 6, june |-> 6, jul |-> 7,
     july |-> 7, aug |-> 8, august |-> 8, sep |-> 9, sept |-> 9, september |-> 9,
     oct |-> 10, october |-> 10, nov |-> 11, november |-> 11, dec |-> 12,
     december |-> 12]

\* validDayMonth with a reference year in which February has 28 days
validDayMonthNonLeap(day, month) ==
    LET t == CivilFromDays(DaysFromCivil(2023, month, day))
    IN  t.month = month /\ t.day = day

\* validDayMonth: time.Date(2024, month, day) keeps month and day
validDayMonth(day, month) ==
    LET t == CivilFromDays(DaysFromCivil(2024, month, day))
    IN  t.month = month /\ t.day = day

\* parseNamedDateLine after the match m of namedDatePattern
parseNamedDateMatch(m) ==
    LET monthRaw == ToLower(m.m1)
        day      == Atoi(m.m2)
        year     == Atoi(m.m3)
        none     == [matched |-> m.matched, err |-> "", month |-> 0, day |-> 0,
                     year |-> NULL]
    IN  IF ~m.matched THEN none
        ELSE IF monthRaw \notin DOMAIN monthNames
        THEN [none EXCEPT !.err = "invalid month name"]
        ELSE IF day < 1 \/ day > 31
        THEN [none EXCEPT !.err = "invalid day value"]
        ELSE IF ~validDayMonth(day, monthNames[monthRaw])
        THEN [none EXCEPT !.err = "invalid calendar date"]
        ELSE IF m.m3 # <<>> /\ (year < 1900 \/ year > 3000)
        THEN [none EXCEPT !.err = "invalid year value"]
        ELSE [none EXCEPT !.month = monthNames[monthRaw], !.day = day,
                          !.year = IF m.m3 = <<>> THEN NULL ELSE Some(year)]

\* parseNamedDateLine
parseNamedDateLine(line) == parseNamedDateMatch(namedDatePattern(TrimText(line)))

\* a row of people as the inbound flow sees it; hire_date is a day number
PersonRow(h, n, a, bd, bm, by, hd, o, m) ==
    [handle |-> h, displayName |-> n, avatar |-> a,
     bDay |-> bd, bMonth |-> bm, bYear |-> by, hire |-> hd,
     optIn |-> o, mode |-> m]

\* domain.Person{}: what buildPersonUpsert holds in existing after ErrNotFound
ZeroPerson == PersonRow(<<>>, <<>>, <<>>, NULL, NULL, NULL, NULL, FALSE, "")

\* the rows the table may hold for a user when a message arrives: none, a full
\* row, and a row with blank texts and no dates
StoredRows ==
    { NULL,
      Some(PersonRow(<<"alpha_saved">>, <<"Alpha", " ", "Saved">>, <<"img_saved">>,
                     Some(14), Some(6), Some(1990),
                     Some(DaysFromCivil(2019, 5, 1)), FALSE, "day_before")),
      Some(PersonRow(<<" ">>, <<>>, <<>>, NULL, NULL, NULL, NULL, TRUE, "none")) }

\* parsedProfileInput; HireDate as a day number
ParsedInput(hb, d, m, y, hh, hd) ==
    [hasBirthday |-> hb, bDay |-> d, bMonth |-> m, bYear |-> y,
     hasHireDate |-> hh, hire |-> hd]

\* parsedProfileInput{}
EmptyParsed == ParsedInput(FALSE, 0, 0, NULL, FALSE, 0)

\* what a parser returns: the error text ("" for nil) and the parsed input,
\* which is parsedProfileInput{} with every error
ParseOK(parsed) == [err |-> "", val |-> parsed]
ParseErr(msg) == [err |-> msg, val |-> EmptyParsed]

\* parseBirthdayParts
parseBirthdayParts(dayRaw, monthRaw, yearRaw) ==
    LET day   == Atoi(dayRaw)
        month == Atoi(monthRaw)
        year  == Atoi(yearRaw)
    IN  IF day < 1 \/ day > 31 \/ month < 1 \/ month > 12
        THEN ParseErr("invalid birthday value")
        ELSE IF ~validDayMonth(day, month)
        THEN ParseErr("invalid birthday date")
        ELSE IF yearRaw # <<>> /\ (year < 1900 \/ year > 3000)
        THEN ParseErr("invalid birthday year")
        ELSE ParseOK(ParsedInput(TRUE, day, month,
                                 IF yearRaw = <<>> THEN NULL ELSE Some(year),
                                 FALSE, 0))

\* the loop of parseNamedDateProfileInput over the lines that are left, and the
\* statements after it
RECURSIVE parseNamedDateLines(_, _, _)

\* one pass of the loop: the trimmed line, what parseNamedDateLine returned for
\* it, and the lines after it
parseNamedDateStep(line, r, rest, parsed, usedNamedMode) ==
    LET fail(msg) == [used |-> TRUE, err |-> msg, val |-> EmptyParsed]
        days      == DaysFromCivil(r.year[1], r.month, r.day)
        hireDate  == CivilFromDays(days)
    IN  IF line = <<>> THEN parseNamedDateLines(rest, parsed, usedNamedMode)
        ELSE IF r.err # "" THEN fail(r.err)
        ELSE IF ~r.matched
        THEN IF usedNamedMode THEN fail("invalid date line format")
             ELSE parseNamedDateLines(rest, parsed, usedNamedMode)
        ELSE IF r.year = NULL
        THEN IF parsed.hasBirthday THEN fail("multiple birthday lines provided")
             ELSE parseNamedDateLines(rest,
                      [parsed EXCEPT !.hasBirthday = TRUE, !.bDay = r.day,
                                     !.bMonth = r.month, !.bYear = NULL],
                      TRUE)
        ELSE IF parsed.hasHireDate THEN fail("multiple hire date lines provided")
        ELSE IF hireDate.month # r.month \/ hireDate.day # r.day
        THEN fail("invalid hire date")
        ELSE parseNamedDateLines(rest,
                 [parsed EXCEPT !.hasHireDate = TRUE, !.hire = days], TRUE)

parseNamedDateLines(lines, parsed, usedNamedMode) ==
    IF lines = <<>>
    THEN IF ~usedNamedMode THEN [used |-> FALSE, err |-> "", val |-> EmptyParsed]
         ELSE IF ~parsed.hasBirthday /\ ~parsed.hasHireDate
         THEN [used |-> TRUE, err |-> "no birthday or hire date found",
               val |-> EmptyParsed]
         ELSE [used |-> TRUE, err |-> "", val |-> parsed]
    ELSE parseNamedDateStep(TrimText(Head(lines)), parseNamedDateLine(Head(lines)),
                            Tail(lines), parsed, usedNamedMode)

\* parseNamedDateProfileInput that reads the first line only
parseNamedDateProfileInputFirstLineOnly(text) ==
    parseNamedDateLines(<<Head(Split(text))>>, EmptyParsed, FALSE)

\* parseNamedDateProfileInput that reads the last line only
parseNamedDateProfileInputLastLineOnly(text) ==
    parseNamedDateLines(<<Split(text)[Len(Split(text))]>>, EmptyParsed, FALSE)

\* parseNamedDateProfileInput
parseNamedDateProfileInput(text) == parseNamedDateLines(Split(text), EmptyParsed, FALSE)

\* the first of two matches that matched
FirstMatch(m1, m2) == IF m1.matched THEN m1 ELSE m2

\* parseLegacyProfileInput after the matches: mb of the birthday patterns with
\* the result b of parseBirthdayParts, mh of the hire patterns with the result h
\* of time.Parse, without the test for an empty result
parseLegacyResultAllowingEmpty(mb, b, mh, h) ==
    IF mb.matched /\ b.err # "" THEN b
    ELSE IF mh.matched /\ ~h.ok
    THEN ParseErr("invalid hire date format (use YYYY-MM-DD)")
    ELSE ParseOK([hasBirthday |-> mb.matched,
                  bDay        |-> IF mb.matched THEN b.val.bDay ELSE 0,
                  bMonth      |-> IF mb.matched THEN b.val.bMonth ELSE 0,
                  bYear       |-> IF mb.matched THEN b.val.bYear ELSE NULL,
                  hasHireDate |-> mh.matched,
                  hire        |-> IF mh.matched THEN h.days ELSE 0])

\* parseLegacyProfileInput after the matches: mb of the birthday patterns with
\* the result b of parseBirthdayParts, mh of the hire patterns with the result h
\* of time.Parse
parseLegacyResult(mb, b, mh, h) ==
    IF mb.matched /\ b.err # "" THEN b
    ELSE IF mh.matched /\ ~h.ok
    THEN ParseErr("invalid hire date format (use YYYY-MM-DD)")
    ELSE IF ~mb.matched /\ ~mh.matched
    THEN ParseErr("no birthday or hire date found")
    ELSE ParseOK([hasBirthday |-> mb.matched,
                  bDay        |-> IF mb.matched THEN b.val.bDay ELSE 0,
                  bMonth      |-> IF mb.matched THEN b.val.bMonth ELSE 0,
                  bYear       |-> IF mb.matched THEN b.val.bYear ELSE NULL,
                  hasHireDate |-> mh.matched,
                  hire        |-> IF mh.matched THEN h.days ELSE 0])

\* parseLegacyProfileInput after the matches of the patterns
parseLegacyMatches(mb, mh) ==
    parseLegacyResult(mb, parseBirthdayParts(mb.m1, mb.m2, mb.m3), mh, timeParse(mh))

\* parseLegacyProfileInput
parseLegacyProfileInput(clean) ==
    parseLegacyMatches(FirstMatch(birthdayPattern(clean), onlyBirthday(clean)),
                       FirstMatch(hirePattern(clean), onlyHireDate(clean)))

\* parseProfileInput after parseNamedDateProfileInput, with the legacy grammar
\* tried first
parseProfileInputLegacyFirst(named, clean) ==
    IF parseLegacyProfileInput(clean).err = "" THEN parseLegacyProfileInput(clean)
    ELSE [err |-> named.err, val |-> named.val]

\* parseProfileInput after parseNamedDateProfileInput returned named
parseProfileInputNamed(named, clean) ==
    IF named.used \/ named.err # "" THEN [err |-> named.err, val |-> named.val]
    ELSE parseLegacyProfileInput(clean)

\* parseProfileInput without its test for an empty text
parseProfileInputWithoutEmptyCheck(text) ==
    parseProfileInputNamed(parseNamedDateProfileInput(TrimText(text)), TrimText(text))

\* parseProfileInput
parseProfileInput(text) ==
    IF TrimText(text) = <<>> THEN ParseErr("empty message")
    ELSE parseProfileInputNamed(parseNamedDateProfileInput(TrimText(text)),
                                TrimText(text))

\* the digits of n, in a run of the given width
Digits(n, width) == [i \in 1..width |-> (n \div (10 ^ (width - i))) % 10]

\* lines of the named grammar: "march 25", "/march 25", "january 23, 2024"
NamedLine(slash, word, day) ==
    (IF slash THEN <<Sym("/")>> ELSE <<>>) \o <<Word(word), Sp, Num(day)>>
NamedYearLine(slash, word, day, year) ==
    NamedLine(slash, word, day) \o <<Sym(","), Sp, Num(Digits(year, 4))>>

\* lines of the legacy grammar: "birthday: 14/06", "birthday: 14/06/1990",
\* "14/06", "hire_date: 2020-01-15", "2020-01-15"
DayMonth(day, month) == <<Num(Digits(day, 2)), Sym("/"), Num(Digits(month, 2))>>
IsoDate(year, month, day) ==
    <<Num(Digits(year, 4)), Sym("-"), Num(Digits(month, 2)), Sym("-"),
      Num(Digits(day, 2))>>
Keyed(word, rest) == <<Word(word), Sym(":"), Sp>> \o rest

\* the lines that messages are made of
NamedLines ==
    { NamedLine(FALSE, "march", <<2, 5>>), NamedLine(TRUE, "march", <<2, 5>>),
      NamedLine(FALSE, "March", <<2, 5>>), NamedLine(FALSE, "april", <<1, 0>>),
      NamedLine(FALSE, "feb", <<2, 9>>), NamedLine(FALSE, "february", <<3, 0>>),
      NamedLine(FALSE, "april", <<3, 1>>), NamedLine(FALSE, "march", <<0>>),
      NamedLine(FALSE, "hello", <<2, 5>>),
      NamedYearLine(FALSE, "january", <<2, 3>>, 2024),
      NamedYearLine(TRUE, "january", <<2, 3>>, 2024),
      NamedYearLine(FALSE, "july", <<4>>, 2020),
      NamedYearLine(FALSE, "july", <<4>>, 1899),
      NamedYearLine(FALSE, "feb", <<2, 9>>, 2023) }

LegacyLines ==
    { Keyed("birthday", DayMonth(14, 6)), Keyed("birthday", DayMonth(29, 2)),
      Keyed("birthday", DayMonth(30, 2)), Keyed("birthday", DayMonth(31, 4)),
      Keyed("birthday", DayMonth(14, 13)),
      Keyed("birthday", DayMonth(29, 2) \o <<Sym("/"), Num(Digits(2000, 4))>>),
      Keyed("birthday", DayMonth(14, 6) \o <<Sym("/"), Num(Digits(1899, 4))>>),
      Keyed("hire_date", IsoDate(2020, 1, 15)),
      Keyed("hire_date", IsoDate(1800, 1, 1)),
      Keyed("hire_date", IsoDate(2023, 2, 29)),
      <<Word("start"), Sp, Word("date"), Sp>> \o IsoDate(2020, 1, 15),
      DayMonth(14, 6), IsoDate(2020, 1, 15) }

OtherLines ==
    { <<>>, <<Sp>>, <<Word("hello")>>, NamedLine(FALSE, "march", <<4, 5>>) }

Lines == NamedLines \cup LegacyLines \cup OtherLines

\* the texts of at most n lines
RECURSIVE TextsOf(_)
TextsOf(n) ==
    IF n = 1 THEN Lines
    ELSE TextsOf(n - 1) \cup
         {text \o <<Nl>> \o line : text \in TextsOf(n - 1), line \in Lines}

Messages == TextsOf(MaxLines)

\* the texts of the interleaved calls: a birthday without and with a year, a
\* hire date, both, and a text that does not parse
InboundTexts ==
    { NamedLine(FALSE, "march", <<2, 5>>),
      Keyed("birthday", DayMonth(29, 2) \o <<Sym("/"), Num(Digits(2000, 4))>>),
      NamedYearLine(FALSE, "january", <<2, 3>>, 2024),
      NamedLine(FALSE, "march", <<2, 5>>) \o <<Nl>> \o
          NamedYearLine(FALSE, "january", <<2, 3>>, 2024),
      <<Word("hello")>> }

\* slackUserProfile values: the zero value of a failed fetchSlackUserProfile, a
\* full profile, a profile with a display name only
Profiles ==
    { [handle |-> <<>>, displayName |-> <<>>, avatar |-> <<>>],
      [handle |-> <<"alpha">>, displayName |-> <<"Alpha">>, avatar |-> <<"img_new">>],
      [handle |-> <<>>, displayName |-> <<"Alpha">>, avatar |-> <<>>] }

\* PeopleRepository.GetByWorkspaceAndSlackUserID: the stored row, or none
\* (ErrNotFound)
GetByWorkspaceAndSlackUserID(tbl, u) == tbl[u]

\* buildPersonUpsert with the opt-in of the upsert always true
buildPersonUpsertDefaultingOptIn(stored, slackUserID, parsed, profile) ==
    LET existing == IF stored # NULL THEN stored[1] ELSE ZeroPerson
    IN  PersonRow(
            fallbackString(<<profile.handle, existing.handle, slackUserID>>),
            fallbackString(<<profile.displayName, existing.displayName, slackUserID>>),
            fallbackString(<<profile.avatar, existing.avatar, <<>>>>),
            IF parsed.hasBirthday THEN Some(parsed.bDay) ELSE existing.bDay,
            IF parsed.hasBirthday THEN Some(parsed.bMonth) ELSE existing.bMonth,
            IF parsed.hasBirthday THEN parsed.bYear ELSE existing.bYear,
            IF parsed.hasHireDate THEN Some(parsed.hire) ELSE existing.hire,
            TRUE,
            IF stored # NULL /\ existing.mode # "" THEN existing.mode ELSE "same_day")

\* buildPersonUpsert with the handle taken from the profile or the user id,
\* not from the stored row
buildPersonUpsertHandleSkippingStored(stored, slackUserID, parsed, profile) ==
    LET existing == IF stored # NULL THEN stored[1] ELSE ZeroPerson
    IN  PersonRow(
            fallbackString(<<profile.handle, slackUserID>>),
            fallbackString(<<profile.displayName, existing.displayName, slackUserID>>),
            fallbackString(<<profile.avatar, existing.avatar, <<>>>>),
            IF parsed.hasBirthday THEN Some(parsed.bDay) ELSE existing.bDay,
            IF parsed.hasBirthday THEN Some(parsed.bMonth) ELSE existing.bMonth,
            IF parsed.hasBirthday THEN parsed.bYear ELSE existing.bYear,
            IF parsed.hasHireDate THEN Some(parsed.hire) ELSE existing.hire,
            IF stored # NULL THEN existing.optIn ELSE TRUE,
            IF stored # NULL /\ existing.mode # "" THEN existing.mode ELSE "same_day")

\* buildPersonUpsert with the display name falling back to the stored one only
buildPersonUpsertNameWithoutUserID(stored, slackUserID, parsed, profile) ==
    LET existing == IF stored # NULL THEN stored[1] ELSE ZeroPerson
    IN  PersonRow(
            fallbackString(<<profile.handle, existing.handle, slackUserID>>),
            fallbackString(<<profile.displayName, existing.displayName>>),
            fallbackString(<<profile.avatar, existing.avatar, <<>>>>),
            IF parsed.hasBirthday THEN Some(parsed.bDay) ELSE existing.bDay,
            IF parsed.hasBirthday THEN Some(parsed.bMonth) ELSE existing.bMonth,
            IF parsed.hasBirthday THEN parsed.bYear ELSE existing.bYear,
            IF parsed.hasHireDate THEN Some(parsed.hire) ELSE existing.hire,
            IF stored # NULL THEN existing.optIn ELSE TRUE,
            IF stored # NULL /\ existing.mode # "" THEN existing.mode ELSE "same_day")

\* SlackInboundService.buildPersonUpsert, from the result of the lookup on
\* (stored = NULL for ErrNotFound)
buildPersonUpsert(stored, slackUserID, parsed, profile) ==
    LET existing == IF stored # NULL THEN stored[1] ELSE ZeroPerson
    IN  PersonRow(
            fallbackString(<<profile.handle, existing.handle, slackUserID>>),
            fallbackString(<<profile.displayName, existing.displayName, slackUserID>>),
            fallbackString(<<profile.avatar, existing.avatar, <<>>>>),
            IF parsed.hasBirthday THEN Some(parsed.bDay) ELSE existing.bDay,
            IF parsed.hasBirthday THEN Some(parsed.bMonth) ELSE existing.bMonth,
            IF parsed.hasBirthday THEN parsed.bYear ELSE existing.bYear,
            IF parsed.hasHireDate THEN Some(parsed.hire) ELSE existing.hire,
            IF stored # NULL THEN existing.optIn ELSE TRUE,
            IF stored # NULL /\ existing.mode # "" THEN existing.mode ELSE "same_day")

\* ProcessEvent after parseProfileInput returned r, returning the parse error
CallAfterParseReturningError(u, text, profile, r) ==
    IF r.err # ""
    THEN [IdleCall EXCEPT !.pc = "done", !.user = u, !.text = text,
                          !.parseErr = r.err, !.dm = "help", !.err = TRUE]
    ELSE [IdleCall EXCEPT !.pc = "build", !.user = u, !.text = text,
                          !.parsed = Some(r.val), !.profile = Some(profile)]

\* ProcessEvent after parseProfileInput returned r: a text that does not parse
\* is answered with the help message (the result of SendDirectMessage is
\* dropped) and the call returns nil; otherwise the profile is fetched (or not)
CallAfterParse(u, text, profile, r) ==
    IF r.err # ""
    THEN [IdleCall EXCEPT !.pc = "done", !.user = u, !.text = text,
                          !.parseErr = r.err, !.dm = "help"]
    ELSE [IdleCall EXCEPT !.pc = "build", !.user = u, !.text = text,
                          !.parsed = Some(r.val), !.profile = Some(profile)]

\* ProcessEvent up to the call of buildPersonUpsert: a direct message of user u
\* passed the filters and is parsed
\* strings.TrimSpace(s) == "" for the ids and subtypes of the envelopes
IsBlankField(s) == s \in {"", " "}

\* the early returns of ProcessEvent without the test of subtype and bot id
IsIgnoredEventUnlessFromBot(envelope) ==
    \/ envelope.type # "event_callback"
    \/ envelope.evType # "message"
    \/ envelope.channelType # "im"
    \/ IsBlankField(envelope.user)

\* the early returns of ProcessEvent: the envelope is not an event_callback,
\* the event is not a message in a direct-message channel from a user, or it
\* has a subtype or a bot id
IsIgnoredEvent(envelope) ==
    \/ envelope.type # "event_callback"
    \/ envelope.evType # "message"
    \/ envelope.channelType # "im"
    \/ IsBlankField(envelope.user)
    \/ ~IsBlankField(envelope.subtype)
    \/ ~IsBlankField(envelope.botID)

\* ProcessEvent up to the lookup of the stored person: an ignored event returns
\* nil at once, any other has its text parsed
ProcessEvent(k, envelope, profile) ==
    /\ calls[k].pc = "idle"
    /\ calls' = [calls EXCEPT ![k] =
                    IF IsIgnoredEvent(envelope)
                    THEN [IdleCall EXCEPT !.pc = "done", !.event = envelope]
                    ELSE [CallAfterParse(envelope.user, envelope.text, profile,
                                         parseProfileInput(envelope.text))
                            EXCEPT !.event = envelope]]
    /\ UNCHANGED <<clock, channels, occurrence, onboarding, directory, log, run, posted, attempts, manualRuns,
                   loop, people>>

\* buildPersonUpsert: look the stored row up (the query may fail) and build the
\* upsert from it
BuildUpsert(k) ==
    /\ calls[k].pc = "build"
    /\ \E ok \in BOOLEAN :
         LET c      == calls[k]
             stored == GetByWorkspaceAndSlackUserID(people, c.user)
         IN  IF ok
             THEN calls' = [calls EXCEPT ![k] =
                      [c EXCEPT !.pc = "upsert", !.existing = stored,
                                !.in = Some(buildPersonUpsert(
                                    stored, <<c.user>>, c.parsed[1], c.profile[1]))]]
             ELSE calls' = [calls EXCEPT ![k] = [c EXCEPT !.pc = "done", !.err = TRUE]]
    /\ UNCHANGED <<clock, channels, occurrence, onboarding, directory, log, run, posted, attempts, manualRuns, loop,
                   people>>

\* PeopleRepository.Upsert: INSERT ... ON CONFLICT (workspace_id, slack_user_id)
\* DO UPDATE SET every column
Upsert(k) ==
    /\ calls[k].pc = "upsert"
    /\ \E ok \in BOOLEAN :
         IF ok
         THEN /\ people' = [people EXCEPT ![calls[k].user] = calls[k].in]
              /\ calls' = [calls EXCEPT ![k].pc = "ack"]
         ELSE /\ UNCHANGED people
              /\ calls' = [calls EXCEPT ![k].pc = "done", ![k].err = TRUE]
    /\ UNCHANGED <<clock, channels, occurrence, onboarding, directory, log, run, posted, attempts, manualRuns, loop>>

\* SendDirectMessage of the acknowledgement; a failure is logged only
SendAck(k) ==
    /\ calls[k].pc = "ack"
    /\ calls' = [calls EXCEPT ![k].pc = "done", ![k].dm = "ack"]
    /\ UNCHANGED <<clock, channels, occurrence, onboarding, directory, log, run, posted, attempts, manualRuns, loop,
                   people>>

----------------------------------------------------------------------------
(* The dashboard: nextOccurrence *)

\* time.Date(year, month, day, 0, 0, 0, 0, time.UTC) as an instant in seconds;
\* a day that the month does not have rolls over into the next month
Date(year, month, day) == DaysFromCivil(year, month, day) * SecondsPerDay

\* t.Year(), t.Month(), t.Day() of an instant in UTC
CivilOf(t) == CivilFromDays(t \div SecondsPerDay)

\* t.AddDate(1, 0, 0) of an instant at midnight
AddYear(t) == Date(CivilOf(t).year + 1, CivilOf(t).month, CivilOf(t).day)

\* nextOccurrence that moves on when the candidate is not after the reference
nextOccurrenceSkippingToday(from, month, day) ==
    LET candidate == Date(CivilOf(from).year, month, day)
    IN  IF candidate <= from THEN AddYear(candidate) ELSE candidate

\* nextOccurrence that stays in the year of the reference
nextOccurrenceInReferenceYear(from, month, day) == Date(CivilOf(from).year, month, day)

\* nextOccurrence
nextOccurrence(from, month, day) ==
    LET candidate == Date(CivilOf(from).year, month, day)
    IN  IF candidate < from THEN AddYear(candidate) ELSE candidate

\* the reference instants: midnight and noon of every day of the reference years
FirstYear == 2023
ReferenceTimes == {0, 12 * 3600}
ReferenceInstants ==
    {d * SecondsPerDay + s :
        d \in DaysFromCivil(FirstYear, 1, 1)..(DaysFromCivil(FirstYear + MaxYears + 1, 1, 1) - 1),
        s \in ReferenceTimes}

\* the call of nextOccurrence of a behaviour, with any reference instant, month
\* and day
NextOccurrence ==
    /\ ~occurrence.called
    /\ \E from \in ReferenceInstants, month \in 1..12, day \in 1..31 :
          occurrence' = [called |-> TRUE, from |-> from, month |-> month,
                         day |-> day, result |-> nextOccurrence(from, month, day)]
    /\ UNCHANGED <<clock, channels, onboarding, directory, log, run, posted, attempts,
                   manualRuns, loop, people, calls>>

----------------------------------------------------------------------------
(* The dashboard: PUT /api/workspaces/{workspaceID}/people/{slackUserID} *)

\* UpsertPersonRequest: the texts and the optional numbers of the JSON body
PutRequest(bd, bm, by, hireDate, optIn, mode) ==
    [handle |-> <<"beta">>, displayName |-> <<"Beta">>, avatar |-> <<>>,
     bDay |-> bd, bMonth |-> bm, bYear |-> by, hireDate |-> hireDate,
     optIn |-> optIn, mode |-> mode]

\* the bodies of the model: a birthday of day and month, a day without a month,
\* a hire date alone, a day that the table refuses, a reminder mode and a hire
\* date that the handler refuses
PutRequests ==
    { PutRequest(Some(14), Some(6), NULL, <<>>, NULL, ""),
      PutRequest(Some(14), NULL, NULL, <<>>, NULL, ""),
      PutRequest(NULL, NULL, NULL, IsoDate(2020, 1, 15), Some(FALSE), "none"),
      PutRequest(Some(32), Some(6), NULL, <<>>, NULL, ""),
      PutRequest(Some(14), Some(6), NULL, <<>>, NULL, "weekly"),
      PutRequest(Some(14), Some(6), NULL, IsoDate(2023, 2, 29), NULL, "") }

\* time.Parse("2006-01-02", req.HireDate)
parseHireDate(text) ==
    IF Len(text) = 5 /\ HireDigitsAt(text, 1, TRUE).matched
    THEN timeParse(HireDigitsAt(text, 1, TRUE))
    ELSE [ok |-> FALSE, days |-> 0]

\* the CHECK constraints of table people on a row
PeopleChecks(row) ==
    /\ row.bDay # NULL => row.bDay[1] \in 1..31
    /\ row.bMonth # NULL => row.bMonth[1] \in 1..12
    /\ row.bYear # NULL => row.bYear[1] \in 1900..3000
    /\ row.mode \in {"none", "same_day", "day_before"}

\* the row that WorkspaceHandler.UpsertPerson hands to PeopleRepository.Upsert
PutRow(req) ==
    PersonRow(req.handle, req.displayName, req.avatar,
              req.bDay, req.bMonth, req.bYear,
              IF TrimText(req.hireDate) = <<>> THEN NULL
              ELSE Some(parseHireDate(req.hireDate).days),
              IF req.optIn = NULL THEN TRUE ELSE req.optIn[1],
              IF req.mode = "" THEN "same_day" ELSE req.mode)

\* WorkspaceHandler.UpsertPerson answers 400 before it calls the service
PutRefused(req) ==
    \/ TrimText(req.hireDate) # <<>> /\ ~parseHireDate(req.hireDate).ok
    \/ req.mode \notin {"", "none", "same_day", "day_before"}

\* WorkspaceHandler.UpsertPerson with DashboardService.UpsertPerson and
\* PeopleRepository.Upsert: the row of user u is replaced, unless the handler
\* refuses the body, the table refuses the row, or the statement fails
UpsertPerson(u, req) ==
    /\ \E ok \in BOOLEAN :
         IF ok /\ ~PutRefused(req) /\ PeopleChecks(PutRow(req))
         THEN people' = [people EXCEPT ![u] = Some(PutRow(req))]
         ELSE UNCHANGED people
    /\ UNCHANGED <<clock, channels, occurrence, onboarding, directory, log, run, posted, attempts,
                   manualRuns, loop, calls>>

----------------------------------------------------------------------------
(* Onboarding DMs: POST /api/workspaces/{workspaceID}/onboarding/dm *)

\* OnboardingDispatchResult
OnboardingDispatchResult(call) ==
    [err |-> FALSE, totalMembers |-> Len(WorkspaceMembers), sent |-> call.sent,
     skipped |-> call.skipped, failed |-> Len(call.failedUsers),
     failedUsers |-> call.failedUsers]

\* OnboardingRepository.MarkSent: INSERT ... ON CONFLICT DO NOTHING
MarkSent(tbl, m) == tbl \cup {m}

\* OnboardingRepository.ListSentUserIDs
ListSentUserIDs(tbl) == tbl

\* SendOnboardingDMs up to its loop: the installation is read, the members are
\* listed and, without force, the recorded users are read; any of the three
\* may fail, and the call then returns the error
SendOnboardingDMs(force, ok) ==
    /\ onboarding.call.pc = "idle"
    /\ onboarding.runs < MaxOnboardingRuns
    /\ onboarding' =
          IF ok
          THEN [onboarding EXCEPT
                  !.runs = @ + 1,
                  !.forced = IF force THEN @ + 1 ELSE @,
                  !.call = [IdleSend EXCEPT
                              !.pc = "loop", !.force = force,
                              !.sentUsers = IF force THEN {}
                                            ELSE ListSentUserIDs(onboarding.log)]]
          ELSE [onboarding EXCEPT
                  !.runs = @ + 1,
                  !.forced = IF force THEN @ + 1 ELSE @,
                  !.result = Some([err |-> TRUE, totalMembers |-> 0, sent |-> 0,
                                   skipped |-> 0, failed |-> 0, failedUsers |-> <<>>])]
    /\ UNCHANGED <<clock, channels, occurrence, directory, log, run, posted, attempts,
                   manualRuns, loop, people, calls>>

\* one iteration of the loop of SendOnboardingDMs, with the DM and MarkSent
\* succeeding or failing
OnboardMember(sendOk, markOk) ==
    LET call   == onboarding.call
        i      == call.next
        member == WorkspaceMembers[i]
    IN  /\ call.pc = "loop"
        /\ i <= Len(WorkspaceMembers)
        /\ onboarding' =
              IF member \in call.sentUsers
              THEN [onboarding EXCEPT !.call.next = i + 1, !.call.skipped = @ + 1]
              ELSE IF ~sendOk
              THEN [onboarding EXCEPT
                      !.call.next = i + 1,
                      !.call.failedUsers = Append(@, member)]
              ELSE IF ~markOk
              THEN [onboarding EXCEPT
                      !.dms[i] = @ + 1,
                      !.call.next = i + 1,
                      !.call.failedUsers = Append(@, member)]
              ELSE [onboarding EXCEPT
                      !.dms[i] = @ + 1,
                      !.log = MarkSent(@, member),
                      !.call.next = i + 1,
                      !.call.sent = @ + 1]
        /\ UNCHANGED <<clock, channels, occurrence, directory, log, run, posted,
                       attempts, manualRuns, loop, people, calls>>

\* SendOnboardingDMs after its loop: the failed users are sorted (they were
\* appended in the order of WorkspaceMembers, which is the sorted order) and
\* the result is returned
ReturnOnboarding ==
    /\ onboarding.call.pc = "loop"
    /\ onboarding.call.next > Len(WorkspaceMembers)
    /\ onboarding' = [onboarding EXCEPT
                        !.result = Some(OnboardingDispatchResult(onboarding.call)),
                        !.call = IdleSend]
    /\ UNCHANGED <<clock, channels, occurrence, directory, log, run, posted, attempts,
                   manualRuns, loop, people, calls>>

----------------------------------------------------------------------------
(* The dashboard people list: mergePeopleWithWorkspaceMembers *)

\* dashboardWorkspaceMember
DirectoryMember(id, h, n, a) ==
    [id |-> id, handle |-> h, displayName |-> n, avatar |-> a]

\* domain.Person: the key of the row and its columns
DirectoryPerson(id, ws, row) == [id |-> id, workspace |-> ws, row |-> row]

\* the lowercase words of the names of this model in the byte order of Go's
\* string comparison
Collation == <<" ", "alpha", "alpha_saved", "beta", "saved", "u1", "u2", "u3">>

CollationRank(w) == CHOOSE i \in DOMAIN Collation : Collation[i] = w

\* strings.ToLower of a name
ToLowerName(name) == [i \in DOMAIN name |-> ToLower(name[i])]

\* left < right on strings
RECURSIVE LessString(_, _)
LessString(left, right) ==
    IF right = <<>> THEN FALSE
    ELSE IF left = <<>> THEN TRUE
    ELSE IF Head(left) = Head(right) THEN LessString(Tail(left), Tail(right))
    ELSE CollationRank(Head(left)) < CollationRank(Head(right))

\* the key merged is sorted by
SortKey(p) ==
    ToLowerName(TrimSpace(fallbackString(<<p.row.displayName, p.row.handle, p.id>>)))

\* the less function of the sort.Slice call
LessPerson(p, q) ==
    IF SortKey(p) = SortKey(q)
    THEN LessString(ToLowerName(p.id), ToLowerName(q.id))
    ELSE LessString(SortKey(p), SortKey(q))

\* seq without its i-th element
RemoveAt(seq, i) == SubSeq(seq, 1, i - 1) \o SubSeq(seq, i + 1, Len(seq))

\* sort.Slice(merged, less)
RECURSIVE SortSlice(_)
SortSlice(seq) ==
    IF seq = <<>> THEN <<>>
    ELSE LET i == CHOOSE i \in DOMAIN seq :
                      \A j \in DOMAIN seq : ~LessPerson(seq[j], seq[i])
         IN  <<seq[i]>> \o SortSlice(RemoveAt(seq, i))

\* byUserID after the first loop: the last person of existing with each id
ByUserID(existing) ==
    [id \in {existing[i].id : i \in DOMAIN existing} |->
        existing[CHOOSE i \in DOMAIN existing :
                    /\ existing[i].id = id
                    /\ \A j \in DOMAIN existing : existing[j].id = id => j <= i]]

\* the stored person p of a member m, with the member's name, handle and
\* avatar in place of the stored ones
MergeMemberOverwritingProfile(p, m, workspaceID) ==
    DirectoryPerson(
        p.id,
        IF p.workspace = "" THEN workspaceID ELSE p.workspace,
        [p.row EXCEPT
            !.handle = m.handle,
            !.displayName = m.displayName,
            !.avatar = m.avatar,
            !.mode = IF @ = "" THEN "same_day" ELSE @])

\* the stored person p of a member m as the merge appends it: blank handle,
\* display name and avatar are filled from the member, a blank workspace id
\* and a blank reminder mode get their defaults
MergeMember(p, m, workspaceID) ==
    DirectoryPerson(
        p.id,
        IF p.workspace = "" THEN workspaceID ELSE p.workspace,
        [p.row EXCEPT
            !.handle = IF TrimSpace(@) = <<>> THEN m.handle ELSE @,
            !.displayName = IF TrimSpace(@) = <<>> THEN m.displayName ELSE @,
            !.avatar = IF TrimSpace(@) = <<>> THEN m.avatar ELSE @,
            !.mode = IF @ = "" THEN "same_day" ELSE @])

\* the person appended for a member without a stored row
SyntheticPerson(m, workspaceID) ==
    DirectoryPerson(m.id, workspaceID,
                    PersonRow(m.handle, m.displayName, m.avatar,
                              NULL, NULL, NULL, NULL, TRUE, "same_day"))

\* a stored person no member matched, as the last loop appends it
UnmatchedPerson(p) ==
    [p EXCEPT !.row.mode = IF @ = "" THEN "same_day" ELSE @]

\* f without the key k
DeleteKey(f, k) == [x \in DOMAIN f \ {k} |-> f[x]]

\* the persons of a set, in some order (the iteration order of a Go map)
RECURSIVE RangeOver(_)
RangeOver(byUserID) ==
    IF DOMAIN byUserID = {} THEN <<>>
    ELSE LET id == CHOOSE id \in DOMAIN byUserID : TRUE
         IN  <<UnmatchedPerson(byUserID[id])>> \o RangeOver(DeleteKey(byUserID, id))

\* the loop over members with merged and byUserID as they stand, then the
\* loop over what is left of byUserID
RECURSIVE MergeLoop(_, _, _, _)
MergeLoop(members, byUserID, merged, workspaceID) ==
    IF members = <<>> THEN merged \o RangeOver(byUserID)
    ELSE IF Head(members).id \in DOMAIN byUserID
    THEN MergeLoop(Tail(members), DeleteKey(byUserID, Head(members).id),
                   Append(merged, MergeMember(byUserID[Head(members).id],
                                              Head(members), workspaceID)),
                   workspaceID)
    ELSE MergeLoop(Tail(members), byUserID,
                   Append(merged, SyntheticPerson(Head(members), workspaceID)),
                   workspaceID)

\* mergePeopleWithWorkspaceMembers
mergePeopleWithWorkspaceMembers(existing, members, workspaceID) ==
    SortSlice(MergeLoop(members, ByUserID(existing), <<>>, workspaceID))

\* rows of table people for the workspace: a full row and a row with blank
\* texts, under the ids of a member and of a user who left Slack
ExistingPersons ==
    { DirectoryPerson(id, "W1", row[1]) :
        id \in {<<"U1">>, <<"U3">>}, row \in StoredRows \ {NULL} }

\* members users.list may return
DirectoryMembers ==
    { DirectoryMember(<<"U1">>, <<"alpha">>, <<"Alpha">>, <<"img_new">>),
      DirectoryMember(<<"U1">>, <<>>, <<>>, <<>>),
      DirectoryMember(<<"U2">>, <<"beta">>, <<"Beta">>, <<>>) }

\* the lists of at most two elements of S with different ids: table people
\* is keyed by (workspace_id, slack_user_id), users.list names a user once
ListsOf(S) ==
    {<<>>} \cup { <<p>> : p \in S }
           \cup { pq \in S \X S : pq[1].id # pq[2].id }

\* the call of mergePeopleWithWorkspaceMembers of a behaviour, as ListPeople
\* makes it
ListPeople ==
    /\ ~directory.called
    /\ \E existing \in ListsOf(ExistingPersons), members \in ListsOf(DirectoryMembers) :
          directory' = [called |-> TRUE, existing |-> existing, members |-> members,
                        merged |-> mergePeopleWithWorkspaceMembers(existing, members, "W1")]
    /\ UNCHANGED <<clock, channels, occurrence, onboarding, log, run, posted, attempts,
                   manualRuns, loop, people, calls>>

----------------------------------------------------------------------------
(* Specifications *)

\* the scheduler and the manual trigger, interleaved call by call
Next ==
    \/ \E t \in FirstDayInstants : RunDueCelebrations(t) /\ UNCHANGED loop
    \/ \E ws \in Workspaces, t \in FirstDayInstants :
          manualRuns < MaxOverlap /\ RunWorkspaceNow(ws, t)
    \/ \E p \in Procs : FindBirthdays(p)
    \/ \E p \in Procs : PostBirthday(p)
    \/ \E p \in Procs : FindAnniversaries(p)
    \/ \E p \in Procs : PostAnniversary(p)
    \/ \E p \in Procs : MarkDispatched(p)

Spec == Init /\ [][Next]_vars

\* the single active scheduler alone: no manual trigger
SchedNext ==
    \/ \E t \in Instants : RunDueCelebrations(t) /\ UNCHANGED loop
    \/ FindBirthdays("sched")
    \/ PostBirthday("sched")
    \/ FindAnniversaries("sched")
    \/ PostAnniversary("sched")
    \/ MarkDispatched("sched")

SchedSpec == Init /\ [][SchedNext]_vars

\* the scheduler and the manual trigger in succession: a tick and a manual
\* request never overlap
SeqNext ==
    \/ \E t \in FirstDayInstants :
          run["manual"].pc = "idle" /\ RunDueCelebrations(t) /\ UNCHANGED loop
    \/ \E ws \in Workspaces, t \in FirstDayInstants :
          run["sched"].pc = "idle" /\ RunWorkspaceNow(ws, t)
    \/ \E p \in Procs : FindBirthdays(p)
    \/ \E p \in Procs : PostBirthday(p)
    \/ \E p \in Procs : FindAnniversaries(p)
    \/ \E p \in Procs : PostAnniversary(p)
    \/ \E p \in Procs : MarkDispatched(p)

SeqSpec == Init /\ [][SeqNext]_vars

\* Scheduler.Run with its ticker and the cancellation of its context
RunNext ==
    \/ TickerFire
    \/ Cancel
    \/ \E t \in FirstDayInstants : SchedulerTick(t)
    \/ SchedulerReturn
    \/ FindBirthdays("sched")
    \/ PostBirthday("sched")
    \/ FindAnniversaries("sched")
    \/ PostAnniversary("sched")
    \/ MarkDispatched("sched")

RunSpec == Init /\ [][RunNext]_vars

\* every call of a dispatch pass returns, and the select, which picks among its
\* ready cases uniformly at random, does not pass over ctx.Done() forever; the
\* timer is under no obligation to fire
RunLiveSpec ==
    /\ RunSpec
    /\ WF_vars(FindBirthdays("sched"))
    /\ WF_vars(PostBirthday("sched"))
    /\ WF_vars(FindAnniversaries("sched"))
    /\ WF_vars(PostAnniversary("sched"))
    /\ WF_vars(MarkDispatched("sched"))
    /\ SF_vars(SchedulerReturn)

\* the inbound flow: ProcessEvent calls, each in the goroutine of its HTTP
\* request, interleaved at their store calls
InboundInit ==
    /\ clock = StartDay * SecondsPerDay
    /\ channels \in {t \in ChannelTables : t["c2"].birthdaysEnabled}
    /\ log = <<>>
    /\ run = [p \in Procs |-> IdleRun]
    /\ posted = EmptyBag
    /\ attempts = EmptyBag
    /\ manualRuns = 0
    /\ loop = StartedLoop
    /\ people \in [InboundUsers -> StoredRows]
    /\ calls = [k \in CallIDs |-> IdleCall]
    /\ occurrence = NoOccurrence
    /\ onboarding = NoOnboarding
    /\ directory = NoMerge

InboundNext ==
    \/ \E k \in CallIDs, u \in InboundUsers, text \in InboundTexts,
          profile \in Profiles : ProcessEvent(k, HumanMessage(u, text), profile)
    \/ \E k \in CallIDs : BuildUpsert(k)
    \/ \E k \in CallIDs : Upsert(k)
    \/ \E k \in CallIDs : SendAck(k)

InboundSpec == InboundInit /\ [][InboundNext]_vars

\* one ProcessEvent call for each text of the message universe
ParseNext ==
    \/ \E u \in InboundUsers, text \in Messages, profile \in Profiles :
          ProcessEvent(1, HumanMessage(u, text), profile)
    \/ BuildUpsert(1)
    \/ Upsert(1)
    \/ SendAck(1)

ParseSpec == Init /\ [][ParseNext]_vars

\* dashboard PUT upserts and inbound DM merges on the people table, in any
\* order
PeopleNext ==
    \/ \E u \in InboundUsers, req \in PutRequests : UpsertPerson(u, req)
    \/ \E k \in CallIDs, u \in InboundUsers, text \in InboundTexts :
          ProcessEvent(k, HumanMessage(u, text),
                       [handle |-> <<>>, displayName |-> <<>>, avatar |-> <<>>])
    \/ \E k \in CallIDs : BuildUpsert(k)
    \/ \E k \in CallIDs : Upsert(k)
    \/ \E k \in CallIDs : SendAck(k)

PeopleSpec == InboundInit /\ [][PeopleNext]_vars

\* SendOnboardingDMs calls one after another, with or without force
OnboardingNext ==
    \/ \E force \in BOOLEAN, ok \in BOOLEAN : SendOnboardingDMs(force, ok)
    \/ \E sendOk \in BOOLEAN, markOk \in BOOLEAN : OnboardMember(sendOk, markOk)
    \/ ReturnOnboarding

OnboardingSpec == Init /\ [][OnboardingNext]_vars

\* the events the Events API may deliver: direct messages of a person, and
\* events with the same text that are not an event_callback, not a message,
\* not in a direct-message channel, without a user, with a subtype, or from a
\* bot (as the bot's own help and acknowledgement DMs are)
InboundEnvelopes ==
    LET text == NamedLine(FALSE, "march", <<2, 5>>)
    IN  { HumanMessage("U7", text),
          HumanMessage("U7", <<Word("hello")>>),
          Envelope("url_verification", "message", "im", "U7", "", "", text),
          Envelope("event_callback", "app_mention", "im", "U7", "", "", text),
          Envelope("event_callback", "message", "channel", "U7", "", "", text),
          Envelope("event_callback", "message", "im", "", "", "", text),
          Envelope("event_callback", "message", "im", " ", "", "", text),
          Envelope("event_callback", "message", "im", "U7", "message_changed", "", text),
          Envelope("event_callback", "message", "im", "U7", "", "B1", text),
          Envelope("event_callback", "message", "im", "U7", "bot_message", "B1",
                   <<Word("hello")>>) }

\* ProcessEvent calls for any event
EventNext ==
    \/ \E k \in CallIDs, envelope \in InboundEnvelopes, profile \in Profiles :
          ProcessEvent(k, envelope, profile)
    \/ \E k \in CallIDs : BuildUpsert(k)
    \/ \E k \in CallIDs : Upsert(k)
    \/ \E k \in CallIDs : SendAck(k)

EventSpec == InboundInit /\ [][EventNext]_vars

\* the dashboard people list alone
DirectoryNext == ListPeople

DirectorySpec == Init /\ [][DirectoryNext]_vars

\* nextOccurrence alone
OccurrenceNext == NextOccurrence

\* the dashboard before the call, over an empty people table
OccurrenceInit == InboundInit /\ people = [u \in InboundUsers |-> NULL]

OccurrenceSpec == OccurrenceInit /\ [][OccurrenceNext]_vars

\* the scheduler alone over a channel table with a zone that Postgres or Go
\* does not resolve
ZoneInit ==
    /\ clock = StartDay * SecondsPerDay
    /\ channels \in ZoneChannelTables
    /\ log = <<>>
    /\ run = [p \in Procs |-> IdleRun]
    /\ posted = EmptyBag
    /\ attempts = EmptyBag
    /\ manualRuns = 0
    /\ loop = StartedLoop
    /\ people = [u \in InboundUsers |-> NULL]
    /\ calls = [k \in CallIDs |-> IdleCall]
    /\ occurrence = NoOccurrence
    /\ onboarding = NoOnboarding
    /\ directory = NoMerge

ZoneSpec == ZoneInit /\ [][SchedNext]_vars

TypeOK ==
    /\ clock \in Nat
    /\ manualRuns \in 0..MaxManual
    /\ \A p \in Procs :
         run[p].pc \in {"idle", "birthdays", "postBirthday", "anniversaries",
                        "postAnniversary", "mark"}

----------------------------------------------------------------------------
(* History *)

RECURSIVE SumOver(_, _)
\* the number of copies the bag B holds of the elements of S
SumOver(B, S) ==
    IF S = {} THEN 0
    ELSE LET e == CHOOSE x \in S : TRUE IN B[e] + SumOver(B, S \ {e})

\* successful PostMessage calls of one kind to channel c for local date d by process p
PostCount(c, kind, d, p) ==
    SumOver(posted, {r \in DOMAIN posted :
        r.channel = c /\ r.kind = kind /\ r.date = d /\ r.by = p})

\* finished passes of channel c for local date d by process p with result ok
AttemptCount(c, d, p, ok) ==
    SumOver(attempts, {r \in DOMAIN attempts :
        r.channel = c /\ r.date = d /\ r.by = p /\ r.ok = ok})

\* the local dates the instants of the model fall on
Days == (StartDay - 1)..(StartDay + MaxDay + 1)

\* some per-channel pass has failed
SomePassFailed == \E r \in DOMAIN attempts : ~r.ok

\* this step is a scheduler tick whose ListDueChannels call returned a list
TickListed ==
    /\ run'["sched"].id # run["sched"].id
    /\ run'["sched"].listed

\* instant t lies in the posting minute of row ch on local date k
InPostingMinute(ch, k, t) ==
    LET start == k * SecondsPerDay + ch.postingHour * 3600
                 + ch.postingMinute * 60 - UTCOffset(ch.timezone)
    IN  start <= t /\ t < start + 60

\* the log holds no entry for channel c and date k
NoEntry(c, k) == \A i \in DOMAIN log : ~(log[i].channel = c /\ log[i].date = k)

\* the log rows of channel c and date k
EntryCount(c, k) ==
    Cardinality({i \in DOMAIN log : log[i].channel = c /\ log[i].date = k})

\* process p is inside a pass of channel c for local date k
InPass(p, c, k) ==
    /\ run[p].pc # "idle"
    /\ Channel(p) = c
    /\ LocalDate(Row(p).timezone, run[p].now) = k

\* this step added a pass that completed without error to the history
PassCompleted ==
    \E r \in DOMAIN attempts' :
        r.ok /\ CopiesIn(r, attempts') = CopiesIn(r, attempts) + 1

----------------------------------------------------------------------------
(* Claims *)

\* C1: ListDueChannels(now) returns a channel if and only if now lies in the
\* channel's posting minute of some local date (local hour and minute equal the
\* posting hour and minute) and the log holds no entry for the channel and that
\* local date.
C1_DueIffPostingMinuteAndNoEntry ==
    [][TickListed =>
         \A c \in ChannelIDs :
            c \in Range(run'["sched"].list)
            <=> \E k \in Days : InPostingMinute(channels[c], k, clock') /\ NoEntry(c, k)
      ]_vars

\* a tick inside the posting minute of a channel that already has its entry
\* returned an empty list
C1_Witness ==
    /\ run["sched"].listed
    /\ run["sched"].list = <<>>
    /\ \E c \in ChannelIDs, k \in Days :
          InPostingMinute(channels[c], k, run["sched"].now) /\ ~NoEntry(c, k)

\* C2 (as claimed): over any sequence of scheduler ticks in which store and
\* Slack calls may fail, a channel receives at most one birthday post and at
\* most one anniversary post for one local calendar date.
C2_AtMostOnePostPerKindAndDate ==
    \A r \in DOMAIN posted :
        r.by = "sched" => PostCount(r.channel, r.kind, r.date, "sched") <= 1

\* C3 (as claimed): when no operation fails, two runs in succession for the
\* same channel and local date post each message at most once, for scheduler
\* ticks and for manual RunWorkspaceNow calls alike, and one log row exists.
C3_TwoRunsPostAtMostOnce ==
    ~SomePassFailed =>
        /\ \A r \in DOMAIN posted : PostCount(r.channel, r.kind, r.date, r.by) <= 1
        /\ \A r \in DOMAIN attempts : EntryCount(r.channel, r.date) = 1

\* C3 (amended): when no operation fails, two scheduler ticks for the same
\* channel and local date post each message at most once; manual
\* RunWorkspaceNow calls post on every call (once per completed or running
\* pass); in both cases exactly one log row exists for the date afterwards.
C3_TicksPostOnceManualRunsPostEach ==
    ~SomePassFailed =>
        /\ \A r \in DOMAIN posted :
             /\ PostCount(r.channel, r.kind, r.date, "sched") <= 1
             /\ PostCount(r.channel, r.kind, r.date, "manual")
                  <= AttemptCount(r.channel, r.date, "manual", TRUE)
                     + (IF InPass("manual", r.channel, r.date) THEN 1 ELSE 0)
        /\ \A r \in DOMAIN attempts : EntryCount(r.channel, r.date) = 1

\* without a failure, two ticks in the posting minute posted the birthday
\* message once, two manual calls posted it twice, and the date has one log row
C3_Witness ==
    LET d == LocalDate("UTC", run["sched"].now)
    IN  /\ ~SomePassFailed
        /\ run["sched"].listed /\ run["sched"].list = <<>>
        /\ InPostingMinute(channels["c1"], d, run["sched"].now)
        /\ PostCount("c1", "birthday", d, "sched") = 1
        /\ PostCount("c1", "birthday", d, "manual") = 2
        /\ AttemptCount("c1", d, "manual", TRUE) = 2
        /\ EntryCount("c1", d) = 1

\* C4 (as claimed): a manual dispatch and a scheduled dispatch of the same
\* channel for the same local date are mutually exclusive: at most one of them
\* posts to the channel for that date.
C4_ManualAndScheduledExclusive ==
    \A r \in DOMAIN posted, k \in Kinds :
        ~(/\ PostCount(r.channel, r.kind, r.date, "sched") >= 1
          /\ PostCount(r.channel, k, r.date, "manual") >= 1)

\* C4 (amended): a scheduler tick that starts after a manual dispatch of the
\* channel has completed without error for the local date does not dispatch
\* the channel (the other order, and overlapping runs, may both post).
C4_CompletedManualExcludesLaterTick ==
    [][TickListed =>
         \A c \in ChannelIDs :
            AttemptCount(c, LocalDate(channels[c].timezone, clock'), "manual", TRUE) >= 1
            => c \notin Range(run'["sched"].list)
      ]_vars

\* a tick inside the posting minute left out a channel that only a manual
\* dispatch had handled for the date
C4_Witness ==
    LET d == LocalDate("UTC", run["sched"].now)
    IN  /\ run["sched"].listed
        /\ InPostingMinute(channels["c1"], d, run["sched"].now)
        /\ "c1" \notin Range(run["sched"].list)
        /\ AttemptCount("c1", d, "manual", TRUE) = 1
        /\ AttemptCount("c1", d, "sched", TRUE) = 0
        /\ PostCount("c1", "birthday", d, "manual") = 1
        /\ PostCount("c1", "birthday", d, "sched") = 0

\* C5: once the log holds an entry for (channel, local date d), no later
\* ListDueChannels call at an instant whose local date in the channel's zone is
\* d returns the channel, and no step updates or removes a log entry.
C5_EntryExcludesChannelForItsDate ==
    [][/\ TickListed =>
            \A c \in ChannelIDs :
               ~NoEntry(c, LocalDate(channels[c].timezone, clock'))
               => c \notin Range(run'["sched"].list)
       /\ Len(log') >= Len(log)
       /\ SubSeq(log', 1, Len(log)) = log
      ]_vars

\* the Tokyo channel has its entry for a local date that differs from the UTC
\* date, and a later tick of the same posting minute left it out
C5_Witness ==
    /\ run["sched"].listed
    /\ "c2" \notin Range(run["sched"].list)
    /\ InPostingMinute(channels["c2"], LocalDate("Asia/Tokyo", run["sched"].now),
                       run["sched"].now)
    /\ ~NoEntry("c2", LocalDate("Asia/Tokyo", run["sched"].now))
    /\ LocalDate("Asia/Tokyo", run["sched"].now) # LocalDate("UTC", run["sched"].now)

\* C6 (as claimed): through the scheduler a channel gets at most one dispatch
\* attempt per local calendar day.
C6_AtMostOneAttemptPerDay ==
    \A r \in DOMAIN attempts :
        r.by = "sched" =>
            AttemptCount(r.channel, r.date, "sched", TRUE)
            + AttemptCount(r.channel, r.date, "sched", FALSE) <= 1

\* C6 (amended): through the scheduler a channel gets at most one dispatch
\* pass that completes without error per local calendar day (a failed pass
\* may be followed by further attempts inside the posting minute).
C6_AtMostOneCompletedPassPerDay ==
    \A r \in DOMAIN attempts :
        r.by = "sched" => AttemptCount(r.channel, r.date, "sched", TRUE) <= 1

\* a channel was attempted twice on one local date: a failed pass, then a
\* completed one
C6_Witness ==
    \E r \in DOMAIN attempts :
        /\ r.by = "sched"
        /\ AttemptCount(r.channel, r.date, "sched", FALSE) >= 1
        /\ AttemptCount(r.channel, r.date, "sched", TRUE) = 1

\* C7: MarkChannelDispatched is an idempotent insert-if-absent: the log never
\* holds two entries for one (channel, date), the call returns no error, and a
\* call for an existing (channel, date) leaves the log unchanged.
C7_MarkIsIdempotentInsertIfAbsent ==
    /\ \A i, j \in DOMAIN log :
          (log[i].channel = log[j].channel /\ log[i].date = log[j].date) => i = j
    /\ \A c \in ChannelIDs, t \in Instants :
          LET txt  == FormatDate(channels[c].timezone, t)
              once == MarkChannelDispatched(log, c, txt)
          IN  /\ ~once.err
              /\ ~NoEntry(c, ParseDate(txt)) => once.log = log
              /\ MarkChannelDispatched(once.log, c, txt) = once

\* two passes, one of the scheduler and one manual, completed for the same
\* channel and date: the second write met the existing entry
C7_Witness ==
    \E c \in ChannelIDs, k \in Days :
        /\ AttemptCount(c, k, "sched", TRUE) = 1
        /\ AttemptCount(c, k, "manual", TRUE) = 1
        /\ EntryCount(c, k) = 1

\* C8: whenever a per-channel pass completes without error, the log holds an
\* entry for (channel, local date of now), also when nothing was posted.
C8_CompletedPassLeavesEntry ==
    \A r \in DOMAIN attempts : r.ok => ~NoEntry(r.channel, r.date)

\* a pass of a channel with birthdays and anniversaries disabled completed
\* without posting anything
C8_Witness ==
    \E r \in DOMAIN attempts :
        /\ r.ok
        /\ ~channels[r.channel].birthdaysEnabled
        /\ ~channels[r.channel].anniversariesEnabled
        /\ \A q \in DOMAIN posted : ~(q.channel = r.channel /\ q.date = r.date)

\* C9: a pass in which a query, a post or the log write fails writes no log
\* entry (the log changes only in the step that completes a pass without
\* error), and the channel is returned again by ListDueChannels at a later
\* poll inside its posting minute for as long as no pass has completed for
\* the date.
C9_FailedPassWritesNoEntryAndStaysDue ==
    [][/\ log' # log => PassCompleted
       /\ TickListed =>
            \A c \in ChannelIDs, k \in Days :
               (/\ InPostingMinute(channels[c], k, clock')
                /\ AttemptCount(c, k, "sched", FALSE) >= 1
                /\ \A p \in Procs : AttemptCount(c, k, p, TRUE) = 0)
               => c \in Range(run'["sched"].list)
      ]_vars

\* a channel whose pass failed earlier on this date is being dispatched again
C9_Witness ==
    \E c \in ChannelIDs, k \in Days :
        /\ InPass("sched", c, k)
        /\ AttemptCount(c, k, "sched", FALSE) >= 1
        /\ NoEntry(c, k)

\* C10: in one RunDueCelebrations tick every listed channel is attempted exactly
\* once, in listing order, whether or not earlier channels failed; the tick
\* returns no error and retries no channel.
C10_TickAttemptsEveryListedChannelOnce ==
    LET r == run["sched"]
    IN  r.listed =>
          /\ r.idx <= Len(r.list) + 1
          /\ r.attempted = SubSeq(r.list, 1, r.idx - 1)
          /\ r.pc = "idle" => (r.attempted = r.list /\ ~r.err)

\* a tick listed two channels, the first one failed and the second one was
\* still dispatched
C10_Witness ==
    LET r == run["sched"]
    IN  /\ r.listed /\ r.pc = "idle" /\ Len(r.list) = 2
        /\ AttemptCount(r.list[1], LocalDate(channels[r.list[1]].timezone, r.now),
                        "sched", FALSE) = 1
        /\ AttemptCount(r.list[1], LocalDate(channels[r.list[1]].timezone, r.now),
                        "sched", TRUE) = 0
        /\ AttemptCount(r.list[2], LocalDate(channels[r.list[2]].timezone, r.now),
                        "sched", TRUE) = 1

\* C11: a channel whose timezone cannot be resolved fails only its own
\* dispatch: nothing is posted to it and no log row is written for it, and
\* every other channel that is due at the tick is still dispatched.  Stated on
\* the ticks that end with no other error than the unresolved zone: after the
\* tick, the channel with the unresolved zone has no post and no log row, and
\* every channel with a resolvable zone that was inside its posting minute at
\* the tick with no log row for the date has been attempted by the tick.
C11_UnresolvedZoneFailsOnlyItsChannel ==
    \A bad \in ChannelIDs :
        ~(LoadLocationOK(channels[bad].timezone) /\ PgTimezoneOK(channels[bad].timezone))
        =>
        /\ \A r \in DOMAIN posted : r.channel # bad
        /\ \A i \in DOMAIN log : log[i].channel # bad
        /\ (run["sched"].pc = "idle" /\ run["sched"].zoneErr)
           => \A c \in ChannelIDs \ {bad} :
                 \A k \in Days :
                    (InPostingMinute(channels[c], k, clock) /\ NoEntry(c, k))
                    => \E i \in DOMAIN run["sched"].attempted :
                          run["sched"].attempted[i] = c

\* this step is Run receiving from ticker.C and calling RunDueCelebrations
TickStarted == loop.pending /\ ~loop'.pending

\* C12: after the context is cancelled Run starts no new tick:
\* RunDueCelebrations is not invoked in a state in which cancel() has been
\* called, a tick pending in ticker.C at that moment included.
C12_NoTickStartsAfterCancel ==
    [][loop.cancelled => ~TickStarted]_vars

\* C13: scheduler ticks never overlap and a tick dispatches one channel at a
\* time in listing order: Run calls RunDueCelebrations only in a state where
\* no call of it is in progress and the previous call has gone through its
\* whole list; inside a tick exactly one channel of the listing is being
\* dispatched, the channels before it in the listing are the ones attempted so
\* far, in that order, and no channel is listed twice.
C13_TicksAndPassesAreSequential ==
    /\ [][TickStarted =>
            /\ run["sched"].pc = "idle"
            /\ run["sched"].attempted = run["sched"].list]_vars
    /\ [](run["sched"].pc # "idle" =>
            LET r == run["sched"]
            IN  /\ r.idx \in 1..Len(r.list)
                /\ r.attempted = SubSeq(r.list, 1, r.idx - 1)
                /\ \A i, j \in DOMAIN r.list : r.list[i] = r.list[j] => i = j)

\* a tick is dispatching the second channel of its listing while the next
\* timer tick is already waiting in ticker.C
C13_Witness ==
    /\ run["sched"].pc # "idle"
    /\ run["sched"].idx = 2
    /\ loop.pending

\* C14: after cancellation Run eventually returns: an in-flight tick is
\* finished and Run then leaves its select with no need for a further timer
\* tick, given that every call of the dispatch pass returns.
C14_RunReturnsAfterCancel == loop.cancelled ~> loop.returned

\* Run has returned after a cancellation that came in the middle of a tick,
\* and no timer tick is waiting
C14_Witness ==
    /\ loop.returned
    /\ loop.tickInFlight
    /\ ~loop.pending

\* the person with Slack user id u
PersonOf(u) == CHOOSE p \in People : p.id = u

\* C15: with birthdays enabled, the birthday post of a channel mentions exactly
\* the people of the channel's workspace that opted in and whose birthday
\* (month, day) is the local (month, day) of the pass, whatever the birth year;
\* nobody opted out is mentioned, and a 29 February birthday is mentioned only
\* in a post of a local 29 February.
C15_BirthdayPostMentionsExactlyTheMatches ==
    \A r \in DOMAIN posted :
        r.kind = "birthday" =>
        LET ch    == channels[r.channel]
            today == CivilFromDays(r.date)
        IN  /\ ch.birthdaysEnabled
            /\ Range(r.users) =
                 {p.id : p \in {q \in People :
                     /\ q.workspace = ch.workspace
                     /\ q.optIn
                     /\ q.bMonth # NULL /\ q.bDay # NULL
                     /\ q.bMonth[1] = today.month /\ q.bDay[1] = today.day}}
            /\ \A i, j \in DOMAIN r.users : r.users[i] = r.users[j] => i = j
            /\ \A i \in DOMAIN r.users :
                 /\ PersonOf(r.users[i]).optIn
                 /\ PersonOf(r.users[i]).bDay = Some(29)
                    => r.date = DaysFromCivil(2024, 2, 29)

\* a post of 29 February mentions U2 (birth year 2000) and a post of
\* 28 February mentions U1 and not U3, who has the same birthday and opted out
C15_Witness ==
    /\ \E r \in DOMAIN posted :
          r.kind = "birthday" /\ r.users = <<"U2">>
          /\ r.date = DaysFromCivil(2024, 2, 29)
    /\ \E r \in DOMAIN posted :
          r.kind = "birthday" /\ r.users = <<"U1">>
          /\ r.date = DaysFromCivil(2024, 2, 28)

\* C16: with anniversaries enabled, the anniversary post includes exactly the
\* opted-in people of the workspace that have a hire date whose (month, day) is
\* the local (month, day) of the pass; the i-th years value is the local year
\* minus the hire year of the i-th person mentioned.
C16_AnniversaryPostListsMatchesWithTheirYears ==
    \A r \in DOMAIN posted :
        r.kind = "anniversary" =>
        LET ch    == channels[r.channel]
            today == CivilFromDays(r.date)
        IN  /\ ch.anniversariesEnabled
            /\ Range(r.users) =
                 {p.id : p \in {q \in People :
                     /\ q.workspace = ch.workspace
                     /\ q.optIn
                     /\ q.hire # NULL
                     /\ CivilFromDays(q.hire[1]).month = today.month
                     /\ CivilFromDays(q.hire[1]).day = today.day}}
            /\ Len(r.years) = Len(r.users)
            /\ \A i, j \in DOMAIN r.users : r.users[i] = r.users[j] => i = j
            /\ \A i \in DOMAIN r.users :
                 r.years[i] =
                    today.year - CivilFromDays(PersonOf(r.users[i]).hire[1]).year

\* the post of 28 February 2024 lists U1 (hired 2020) and U5 (hired 2022) with
\* 4 and 2 years, and not U3 (hired 28 February 2019, opted out)
C16_Witness ==
    \E r \in DOMAIN posted :
        /\ r.kind = "anniversary"
        /\ r.users = <<"U1", "U5">>
        /\ r.years = <<4, 2>>

\* call k has built its upsert
Built(k) == calls[k].in # NULL

\* the record buildPersonUpsert found, or the values of "no record"
ExistingOf(k) ==
    IF calls[k].existing # NULL THEN calls[k].existing[1]
    ELSE PersonRow(<<>>, <<>>, <<>>, NULL, NULL, NULL, NULL, TRUE, "same_day")

\* the first of three strings that is not blank, without its outer blanks
FirstNonBlank(a, b, c) ==
    IF TrimSpace(a) # <<>> THEN TrimSpace(a)
    ELSE IF TrimSpace(b) # <<>> THEN TrimSpace(b)
    ELSE TrimSpace(c)

BirthdayOnly(parsed) == parsed.hasBirthday /\ ~parsed.hasHireDate
HireDateOnly(parsed) == parsed.hasHireDate /\ ~parsed.hasBirthday

\* C17: the inbound merge changes only the fields the parsed input specifies:
\* birthday day, month and year are the parsed ones iff the input has a
\* birthday and are the existing record's otherwise; the hire date is the
\* parsed one iff the input has a hire date and the existing one otherwise;
\* opt-in and reminder mode are the existing record's, and are true and
\* same_day when there is no record.
C17_MergeChangesOnlySpecifiedFields ==
    \A k \in CallIDs :
        Built(k) =>
        LET in     == calls[k].in[1]
            parsed == calls[k].parsed[1]
            ex     == ExistingOf(k)
        IN  /\ parsed.hasBirthday =>
                 /\ in.bDay = Some(parsed.bDay)
                 /\ in.bMonth = Some(parsed.bMonth)
                 /\ in.bYear = parsed.bYear
            /\ ~parsed.hasBirthday =>
                 /\ in.bDay = ex.bDay
                 /\ in.bMonth = ex.bMonth
                 /\ in.bYear = ex.bYear
            /\ parsed.hasHireDate => in.hire = Some(parsed.hire)
            /\ ~parsed.hasHireDate => in.hire = ex.hire
            /\ in.optIn = ex.optIn
            /\ in.mode = ex.mode

\* a hire date only, merged into a record that opted out, with reminders the
\* day before and a birthday with a year
C17_Witness ==
    \E k \in CallIDs :
        /\ Built(k)
        /\ calls[k].existing # NULL
        /\ HireDateOnly(calls[k].parsed[1])
        /\ calls[k].in[1].bYear = Some(1990)
        /\ calls[k].in[1].optIn = FALSE
        /\ calls[k].in[1].mode = "day_before"
        /\ calls[k].in[1].hire = Some(DaysFromCivil(2024, 1, 23))

\* C18: concurrent inbound messages for one user keep the merge rule: after
\* two ProcessEvent calls for the same user, one with a birthday only and one
\* with a hire date only, have both returned without error, in any
\* interleaving, the stored person holds the new birthday and the new hire date.
C18_ConcurrentMessagesKeepBothFields ==
    \A j, k \in CallIDs :
        ( /\ j # k
          /\ calls[j].pc = "done" /\ ~calls[j].err
          /\ calls[k].pc = "done" /\ ~calls[k].err
          /\ calls[j].user = calls[k].user
          /\ calls[j].parsed # NULL /\ calls[k].parsed # NULL
          /\ BirthdayOnly(calls[j].parsed[1])
          /\ HireDateOnly(calls[k].parsed[1])
          /\ \A i \in CallIDs \ {j, k} : calls[i].pc = "idle" )
        => /\ people[calls[j].user] # NULL
           /\ people[calls[j].user][1].bDay = Some(calls[j].parsed[1].bDay)
           /\ people[calls[j].user][1].bMonth = Some(calls[j].parsed[1].bMonth)
           /\ people[calls[j].user][1].hire = Some(calls[k].parsed[1].hire)

\* C19: for an existing person with handle "alpha_saved" and a parsed input
\* with a hire date only, the upsert keeps "alpha_saved" as the handle whatever
\* the directory profile, leaves birthday day, month and year as stored and
\* sets the hire date to the parsed one.
C19_HireOnlyKeepsSavedHandleForAnyProfile ==
    \A k \in CallIDs :
        ( /\ Built(k)
          /\ calls[k].existing # NULL
          /\ calls[k].existing[1].handle = <<"alpha_saved">>
          /\ HireDateOnly(calls[k].parsed[1]) )
        => /\ calls[k].in[1].handle = <<"alpha_saved">>
           /\ calls[k].in[1].bDay = calls[k].existing[1].bDay
           /\ calls[k].in[1].bMonth = calls[k].existing[1].bMonth
           /\ calls[k].in[1].bYear = calls[k].existing[1].bYear
           /\ calls[k].in[1].hire = Some(calls[k].parsed[1].hire)

\* C19 as the code has it: "alpha_saved" is kept when the directory profile
\* has no handle (a blank one, or the profile could not be fetched); a profile
\* handle that is not blank becomes the handle; the birthday fields stay as
\* stored and the hire date is the parsed one in both cases.
C19_HireOnlyKeepsSavedHandleUnlessProfileHasOne ==
    \A k \in CallIDs :
        ( /\ Built(k)
          /\ calls[k].existing # NULL
          /\ calls[k].existing[1].handle = <<"alpha_saved">>
          /\ HireDateOnly(calls[k].parsed[1]) )
        => /\ TrimSpace(calls[k].profile[1].handle) = <<>>
                => calls[k].in[1].handle = <<"alpha_saved">>
           /\ TrimSpace(calls[k].profile[1].handle) # <<>>
                => calls[k].in[1].handle = TrimSpace(calls[k].profile[1].handle)
           /\ calls[k].in[1].bDay = calls[k].existing[1].bDay
           /\ calls[k].in[1].bMonth = calls[k].existing[1].bMonth
           /\ calls[k].in[1].bYear = calls[k].existing[1].bYear
           /\ calls[k].in[1].hire = Some(calls[k].parsed[1].hire)

\* a hire date only, a profile with a display name and no handle, merged into
\* the record of "alpha_saved"
C19_Witness ==
    \E k \in CallIDs :
        /\ Built(k)
        /\ calls[k].existing # NULL
        /\ calls[k].existing[1].handle = <<"alpha_saved">>
        /\ HireDateOnly(calls[k].parsed[1])
        /\ calls[k].profile[1].displayName = <<"Alpha">>
        /\ calls[k].in[1].handle = <<"alpha_saved">>
        /\ calls[k].in[1].bDay = Some(14)

\* C20: in the inbound upsert, handle, display name and avatar are each the
\* first non-blank of profile value, stored value and external user id, so
\* that none of the three is blank in the record written.
C20_HandleNameAvatarFallBackToUserID ==
    \A k \in CallIDs :
        Built(k) =>
        LET in == calls[k].in[1]
            pr == calls[k].profile[1]
            ex == ExistingOf(k)
            id == <<calls[k].user>>
        IN  /\ in.handle = FirstNonBlank(pr.handle, ex.handle, id)
            /\ in.displayName = FirstNonBlank(pr.displayName, ex.displayName, id)
            /\ in.avatar = FirstNonBlank(pr.avatar, ex.avatar, id)
            /\ TrimSpace(in.handle) # <<>>
            /\ TrimSpace(in.displayName) # <<>>
            /\ TrimSpace(in.avatar) # <<>>

\* C20 as the code has it: handle and display name are the first non-blank of
\* profile value, stored value and external user id, and are never blank; the
\* avatar is the first non-blank of profile value and stored value, and is
\* empty when both are blank.
C20_HandleAndNameFallBackToUserIDAvatarToEmpty ==
    \A k \in CallIDs :
        Built(k) =>
        LET in == calls[k].in[1]
            pr == calls[k].profile[1]
            ex == ExistingOf(k)
            id == <<calls[k].user>>
        IN  /\ in.handle = FirstNonBlank(pr.handle, ex.handle, id)
            /\ in.displayName = FirstNonBlank(pr.displayName, ex.displayName, id)
            /\ in.avatar = FirstNonBlank(pr.avatar, ex.avatar, <<>>)
            /\ TrimSpace(in.handle) # <<>>
            /\ TrimSpace(in.displayName) # <<>>

\* the profile could not be fetched and the stored row has blank texts: handle
\* and display name are the user id, the avatar is empty
C20_Witness ==
    \E k \in CallIDs :
        /\ Built(k)
        /\ calls[k].existing # NULL
        /\ calls[k].existing[1].handle = <<" ">>
        /\ calls[k].profile[1].displayName = <<>>
        /\ calls[k].in[1].handle = <<calls[k].user>>
        /\ calls[k].in[1].displayName = <<calls[k].user>>
        /\ calls[k].in[1].avatar = <<>>

\* C21: when the text of a direct message does not parse, ProcessEvent sends the
\* help message, writes nothing to the people store and returns no error
C21_ParseFailureSendsHelpAndSavesNothing ==
    [][\A k \in CallIDs :
          ( /\ calls[k].pc = "idle"
            /\ calls'[k].pc # "idle"
            /\ parseProfileInput(calls'[k].text).err # "" )
          => /\ calls'[k].pc = "done"
             /\ calls'[k].dm = "help"
             /\ ~calls'[k].err
             /\ calls'[k].in = NULL
             /\ people' = people]_vars

\* a call with a text that does not parse has returned, while another call of
\* the same user has written its row
C21_Witness ==
    \E j, k \in CallIDs :
        /\ calls[k].pc = "done"
        /\ parseProfileInput(calls[k].text).err # ""
        /\ calls[k].dm = "help"
        /\ calls[j].pc = "done"
        /\ calls[j].dm = "ack"
        /\ people[calls[k].user] = calls[j].in

\* what parseProfileInput returned to call k
OutcomeOf(k) ==
    [err |-> calls[k].parseErr,
     val |-> IF calls[k].parsed = NULL THEN EmptyParsed ELSE calls[k].parsed[1]]

\* a calendar date of the given year
ValidDate(year, month, day) ==
    /\ month \in 1..12
    /\ day >= 1
    /\ CivilFromDays(DaysFromCivil(year, month, day)) =
           [year |-> year, month |-> month, day |-> day]

\* a line without its optional leading "/"
NamedBody(line) == IF line # <<>> /\ line[1] = Sym("/") THEN Tail(line) ELSE line

\* the month and the day that a line "<month name> <day>..." names
LineMonth(line) == monthNames[ToLower(NamedBody(line)[1].s)]
LineDay(line) == Atoi(NamedBody(line)[3].d)
LineYear(line) == Atoi(NamedBody(line)[6].d)

\* "<month name> <day>", optionally after "/": a date of every year
IsBirthdayLine(line) ==
    LET b == NamedBody(line)
    IN  /\ Len(b) = 3
        /\ b[1].t = "w" /\ ToLower(b[1].s) \in DOMAIN monthNames
        /\ b[2] = Sp
        /\ b[3].t = "n" /\ Len(b[3].d) \in 1..2
        /\ ValidDate(2023, LineMonth(line), LineDay(line))

\* "<month name> <day>, <year>", optionally after "/": a date of a year in
\* 1900..3000
IsHireLine(line) ==
    LET b == NamedBody(line)
    IN  /\ Len(b) = 6
        /\ b[1].t = "w" /\ ToLower(b[1].s) \in DOMAIN monthNames
        /\ b[2] = Sp
        /\ b[3].t = "n" /\ Len(b[3].d) \in 1..2
        /\ b[4] = Sym(",") /\ b[5] = Sp
        /\ b[6].t = "n" /\ Len(b[6].d) = 4
        /\ LineYear(line) \in 1900..3000
        /\ ValidDate(LineYear(line), LineMonth(line), LineDay(line))

\* C22: in the named grammar a line without a year gives a birthday only
\* (month and day, no year), a line with a four-digit year gives a hire date
\* only, with or without a leading "/", and one line of each gives both
C22_NamedLinesGiveBirthdayOrHireDate ==
    \A k \in CallIDs :
        calls[k].pc # "idle" =>
            LET lines == Split(calls[k].text)
                Birthday(l) == ParsedInput(TRUE, LineDay(l), LineMonth(l), NULL, FALSE, 0)
                HireDay(l)  == DaysFromCivil(LineYear(l), LineMonth(l), LineDay(l))
                Both(b, h)  == ParsedInput(TRUE, LineDay(b), LineMonth(b), NULL,
                                           TRUE, HireDay(h))
            IN  /\ (Len(lines) = 1 /\ IsBirthdayLine(lines[1]))
                   => OutcomeOf(k) = ParseOK(Birthday(lines[1]))
                /\ (Len(lines) = 1 /\ IsHireLine(lines[1]))
                   => OutcomeOf(k) =
                          ParseOK(ParsedInput(FALSE, 0, 0, NULL, TRUE, HireDay(lines[1])))
                /\ (Len(lines) = 2 /\ IsBirthdayLine(lines[1]) /\ IsHireLine(lines[2]))
                   => OutcomeOf(k) = ParseOK(Both(lines[1], lines[2]))
                /\ (Len(lines) = 2 /\ IsHireLine(lines[1]) /\ IsBirthdayLine(lines[2]))
                   => OutcomeOf(k) = ParseOK(Both(lines[2], lines[1]))

\* "/january 23, 2024" and "/march 25" in one message were saved as hire date
\* and birthday
C22_Witness ==
    /\ calls[1].text = NamedYearLine(TRUE, "january", <<2, 3>>, 2024) \o <<Nl>> \o
                       NamedLine(TRUE, "march", <<2, 5>>)
    /\ calls[1].pc = "done"
    /\ people[calls[1].user] # NULL
    /\ people[calls[1].user][1].bDay = Some(25)
    /\ people[calls[1].user][1].bMonth = Some(3)
    /\ people[calls[1].user][1].bYear = NULL
    /\ people[calls[1].user][1].hire = Some(DaysFromCivil(2024, 1, 23))

\* the lines of a text that are not blank
NonBlankLines(text) == SelectSeq(Split(text), LAMBDA l : TrimText(l) # <<>>)

\* how many lines of a sequence satisfy a test
CountLines(lines, Test(_)) == Cardinality({i \in DOMAIN lines : Test(lines[i])})

\* C23: two lines without a year fail with "multiple birthday lines provided",
\* two lines with a year fail with "multiple hire date lines provided", and
\* neither gives a partial result
C23_DuplicateLinesAreRejected ==
    \A k \in CallIDs :
        calls[k].pc # "idle" =>
            LET lines == NonBlankLines(calls[k].text)
                named == \A i \in DOMAIN lines :
                             IsBirthdayLine(lines[i]) \/ IsHireLine(lines[i])
                nb    == CountLines(lines, IsBirthdayLine)
                nh    == CountLines(lines, IsHireLine)
            IN  /\ (named /\ nb >= 2 /\ nh <= 1)
                   => /\ OutcomeOf(k) = ParseErr("multiple birthday lines provided")
                      /\ calls[k].in = NULL
                /\ (named /\ nh >= 2 /\ nb <= 1)
                   => /\ OutcomeOf(k) = ParseErr("multiple hire date lines provided")
                      /\ calls[k].in = NULL

\* "january 23, 2024" and "july 4, 2020" in one message: the call is over and
\* nothing was saved
C23_Witness ==
    /\ calls[1].text = NamedYearLine(FALSE, "january", <<2, 3>>, 2024) \o <<Nl>> \o
                       NamedYearLine(FALSE, "july", <<4>>, 2020)
    /\ calls[1].pc = "done"
    /\ calls[1].parseErr = "multiple hire date lines provided"
    /\ people[calls[1].user] = NULL

\* C24: when a line of the text matches the named grammar, the parse fails if
\* any other line that is not blank does not match it, before or after the
\* matching line
C24_UnmatchedLineFailsInNamedMode ==
    \A k \in CallIDs :
        calls[k].pc # "idle" =>
            LET lines == NonBlankLines(calls[k].text)
            IN  ( /\ \E i \in DOMAIN lines : namedDatePattern(TrimText(lines[i])).matched
                  /\ \E i \in DOMAIN lines : ~namedDatePattern(TrimText(lines[i])).matched )
                => OutcomeOf(k).err # ""

\* "birthday: DD/MM" or "birthday: DD/MM/YYYY": a date of every year, and a
\* year in 1900..3000
IsLegacyBirthdayLine(l) ==
    /\ Len(l) \in {6, 8}
    /\ l[1] = Word("birthday") /\ l[2] = Sym(":") /\ l[3] = Sp
    /\ l[4].t = "n" /\ Len(l[4].d) = 2
    /\ l[5] = Sym("/")
    /\ l[6].t = "n" /\ Len(l[6].d) = 2
    /\ ValidDate(2023, Atoi(l[6].d), Atoi(l[4].d))
    /\ Len(l) = 8 => /\ l[7] = Sym("/")
                     /\ l[8].t = "n" /\ Len(l[8].d) = 4
                     /\ Atoi(l[8].d) \in 1900..3000

\* the parsedProfileInput fields that a legacy birthday line names
LegacyDay(l) == Atoi(l[4].d)
LegacyMonth(l) == Atoi(l[6].d)
LegacyYear(l) == IF Len(l) = 8 THEN Some(Atoi(l[8].d)) ELSE NULL

\* "hire_date: YYYY-MM-DD" (or start_date, work_start): a date of a year in
\* 1900..3000
IsLegacyHireLine(l) ==
    /\ Len(l) = 8
    /\ l[1].t = "w" /\ l[1].s \in {"hire_date", "start_date", "work_start"}
    /\ l[2] = Sym(":") /\ l[3] = Sp
    /\ l[4].t = "n" /\ Len(l[4].d) = 4
    /\ l[5] = Sym("-")
    /\ l[6].t = "n" /\ Len(l[6].d) = 2
    /\ l[7] = Sym("-")
    /\ l[8].t = "n" /\ Len(l[8].d) = 2
    /\ Atoi(l[4].d) \in 1900..3000
    /\ ValidDate(Atoi(l[4].d), Atoi(l[6].d), Atoi(l[8].d))

\* the day number that a legacy hire line names
LegacyHireDay(l) == DaysFromCivil(Atoi(l[4].d), Atoi(l[6].d), Atoi(l[8].d))

\* some line of the text matches the named grammar
SomeLineIsNamed(text) ==
    \E i \in DOMAIN Split(text) : namedDatePattern(TrimText(Split(text)[i])).matched

\* C25: the legacy grammar is tried only if no line of the text matched the
\* named grammar; under it "birthday: DD/MM[/YYYY]" gives day DD and month MM,
\* and a birthday and a keyworded hire date in one text are both recognised,
\* each as it is alone
C25_LegacyGrammarOnlyWithoutNamedLines ==
    \A k \in CallIDs :
        calls[k].pc # "idle" =>
            LET text  == calls[k].text
                lines == Split(text)
                named == parseNamedDateProfileInput(TrimText(text))
                Both(b, h) == ParsedInput(TRUE, LegacyDay(b), LegacyMonth(b),
                                          LegacyYear(b), TRUE, LegacyHireDay(h))
            IN  /\ SomeLineIsNamed(text)
                   => OutcomeOf(k) = [err |-> named.err, val |-> named.val]
                /\ (~SomeLineIsNamed(text) /\ TrimText(text) # <<>>)
                   => OutcomeOf(k) = parseLegacyProfileInput(TrimText(text))
                /\ (Len(lines) = 1 /\ IsLegacyBirthdayLine(lines[1]))
                   => OutcomeOf(k) =
                          ParseOK(ParsedInput(TRUE, LegacyDay(lines[1]),
                                              LegacyMonth(lines[1]),
                                              LegacyYear(lines[1]), FALSE, 0))
                /\ (Len(lines) = 2 /\ IsLegacyBirthdayLine(lines[1])
                                   /\ IsLegacyHireLine(lines[2]))
                   => OutcomeOf(k) = ParseOK(Both(lines[1], lines[2]))
                /\ (Len(lines) = 2 /\ IsLegacyHireLine(lines[1])
                                   /\ IsLegacyBirthdayLine(lines[2]))
                   => OutcomeOf(k) = ParseOK(Both(lines[2], lines[1]))

\* "birthday: 14/06" and "hire_date: 2020-01-15" in one message were saved as
\* birthday 14 June and hire date 15 January 2020
C25_Witness ==
    /\ calls[1].text = Keyed("birthday", DayMonth(14, 6)) \o <<Nl>> \o
                       Keyed("hire_date", IsoDate(2020, 1, 15))
    /\ calls[1].pc = "done"
    /\ people[calls[1].user] # NULL
    /\ people[calls[1].user][1].bDay = Some(14)
    /\ people[calls[1].user][1].bMonth = Some(6)
    /\ people[calls[1].user][1].hire = Some(DaysFromCivil(2020, 1, 15))

\* a text of one line that names a birthday by day and month only: in the named
\* grammar, after the keyword "birthday: ", or bare "DD/MM"
IsNamedDayMonth(text) ==
    LET b == NamedBody(text)
    IN  /\ Len(b) = 3
        /\ b[1].t = "w" /\ ToLower(b[1].s) \in DOMAIN monthNames
        /\ b[2] = Sp
        /\ b[3].t = "n" /\ Len(b[3].d) \in 1..2

IsLegacyDayMonth(text) ==
    \E day, month \in 0..99 :
        text \in {DayMonth(day, month), Keyed("birthday", DayMonth(day, month))}

\* the <<day, month>> that such a text names
DayMonthOf(text) ==
    IF IsNamedDayMonth(text) THEN <<LineDay(text), LineMonth(text)>>
    ELSE <<Atoi(text[Len(text) - 2].d), Atoi(text[Len(text)].d)>>

\* the dates that are in no year, and the date that is in leap years only
NeverDates == {<<30, 2>>, <<31, 4>>}
LeapDate == <<29, 2>>

C27_SuccessfulParseIsInRange ==
    \A k \in CallIDs :
        (calls[k].pc # "idle" /\ OutcomeOf(k).err = "") =>
            LET val == OutcomeOf(k).val
            IN  /\ val.hasBirthday
                   => /\ val.bMonth \in 1..12
                      /\ val.bDay \in 1..31
                      /\ val.bYear # NULL => val.bYear[1] \in 1900..3000
                /\ val.hasHireDate
                   => /\ CivilFromDays(val.hire).month \in 1..12
                      /\ CivilFromDays(val.hire).day \in 1..31
                      /\ CivilFromDays(val.hire).year \in 1900..3000

\* C28: parseProfileInput never succeeds with an empty result: a successful
\* parse carries a birthday, a hire date, or both
C28_SuccessfulParseIsNotEmpty ==
    \A k \in CallIDs :
        (calls[k].pc # "idle" /\ OutcomeOf(k).err = "") =>
            /\ calls[k].parsed # NULL
            /\ calls[k].parsed[1].hasBirthday \/ calls[k].parsed[1].hasHireDate

\* the bare legacy date "2020-01-15" parsed to a hire date alone and was saved
C28_Witness ==
    /\ calls[1].text = IsoDate(2020, 1, 15)
    /\ calls[1].pc = "done"
    /\ calls[1].parseErr = ""
    /\ ~calls[1].parsed[1].hasBirthday
    /\ calls[1].parsed[1].hasHireDate
    /\ people[calls[1].user] # NULL
    /\ people[calls[1].user][1].hire = Some(DaysFromCivil(2020, 1, 15))

\* a text that neither grammar recognises: no line matches the named pattern and
\* no legacy pattern matches the trimmed text
Unrecognised(text) ==
    LET clean == TrimText(text)
    IN  /\ ~SomeLineIsNamed(clean)
        /\ ~birthdayPattern(clean).matched
        /\ ~onlyBirthday(clean).matched
        /\ ~hirePattern(clean).matched
        /\ ~onlyHireDate(clean).matched

C30_OccurrenceOnTheReferenceDayIsTheReference ==
    ( /\ occurrence.called
      /\ ValidDate(2023, occurrence.month, occurrence.day)
      /\ occurrence.from % SecondsPerDay = 0
      /\ CivilOf(occurrence.from).month = occurrence.month
      /\ CivilOf(occurrence.from).day = occurrence.day )
    => occurrence.result = occurrence.from

\* nextOccurrence was called at midnight of 31 December 2024 for 31 December and
\* returned that midnight
C30_Witness ==
    /\ occurrence.called
    /\ occurrence.from = DaysFromCivil(2024, 12, 31) * SecondsPerDay
    /\ occurrence.month = 12
    /\ occurrence.day = 31
    /\ occurrence.result = occurrence.from

\* C31: for every reference day and every (month, day) in 1..12 x 1..31,
\* nextOccurrence is not before the reference and at most 366 days after it
C31_OccurrenceWithinAYearOfTheReference ==
    occurrence.called
    => /\ occurrence.result >= occurrence.from
       /\ occurrence.result - occurrence.from <= 366 * SecondsPerDay

\* nextOccurrence was called at midnight of 2 January 2024 for 1 January and
\* returned 1 January 2025, 365 days later
C31_Witness ==
    /\ occurrence.called
    /\ occurrence.from = Date(2024, 1, 2)
    /\ occurrence.month = 1
    /\ occurrence.day = 1
    /\ occurrence.result = Date(2025, 1, 1)
    /\ occurrence.result - occurrence.from = 365 * SecondsPerDay

\* C32: for every reference day and every (month, day) that a stored birthday
\* or hire date can have, 29 February included, the date that nextOccurrence
\* returns has that month and that day, in the year of the reference if that
\* date is on or after the reference and one year later otherwise
C32_OccurrenceHasTheMonthAndDayAsked ==
    ( /\ occurrence.called
      /\ occurrence.from % SecondsPerDay = 0
      /\ ValidDate(2024, occurrence.month, occurrence.day) )
    => LET ref    == CivilOf(occurrence.from)
           result == CivilOf(occurrence.result)
           onOrAfter == \/ occurrence.month > ref.month
                        \/ occurrence.month = ref.month /\ occurrence.day >= ref.day
       IN  /\ occurrence.result % SecondsPerDay = 0
           /\ result.month = occurrence.month
           /\ result.day = occurrence.day
           /\ result.year = IF onOrAfter THEN ref.year ELSE ref.year + 1

\* C33: in every reachable state of the people table, after any sequence of
\* dashboard PUT upserts and inbound DM merges, the birthday day and the
\* birthday month of each person are both set or both null
C33_BirthdayDayAndMonthTravelTogether ==
    \A u \in InboundUsers :
        people[u] # NULL => ((people[u][1].bDay = NULL) = (people[u][1].bMonth = NULL))


\* C34: across any sequence of SendOnboardingDMs runs without force, in which
\* sending a DM or recording it may fail, each workspace member has received
\* at most one onboarding DM
C34_AtMostOneOnboardingDMWithoutForce ==
    onboarding.forced = 0 =>
        \A i \in DOMAIN WorkspaceMembers : onboarding.dms[i] <= 1


\* the positions of merged that hold the user id
MergedAt(id) == { j \in DOMAIN directory.merged : directory.merged[j].id = id }

\* the members of the call with the user id
MembersWith(id) == { i \in DOMAIN directory.members : directory.members[i].id = id }

\* the stored text, or the member's where the stored one is blank
KeptUnlessBlank(stored, fromMember) ==
    IF TrimSpace(stored) = <<>> THEN fromMember ELSE stored

\* C35: mergePeopleWithWorkspaceMembers never overwrites saved data: for a
\* user both stored and listed by Slack, handle, display name and avatar keep
\* the stored value unless it is blank, and birthday, hire date, opt-in and
\* reminder mode equal the stored values; stored people absent from the
\* member list remain in the result; each user id appears exactly once
C35_MergeNeverOverwritesSavedData ==
    directory.called =>
        /\ \A i \in DOMAIN directory.existing :
             LET p == directory.existing[i]
             IN  /\ Cardinality(MergedAt(p.id)) = 1
                 /\ \A j \in MergedAt(p.id) :
                      LET q == directory.merged[j]
                      IN  /\ q.row.bDay = p.row.bDay
                          /\ q.row.bMonth = p.row.bMonth
                          /\ q.row.bYear = p.row.bYear
                          /\ q.row.hire = p.row.hire
                          /\ q.row.optIn = p.row.optIn
                          /\ q.row.mode = p.row.mode
                          /\ \A k \in MembersWith(p.id) :
                               LET m == directory.members[k]
                               IN  /\ q.row.handle = KeptUnlessBlank(p.row.handle, m.handle)
                                   /\ q.row.displayName =
                                        KeptUnlessBlank(p.row.displayName, m.displayName)
                                   /\ q.row.avatar = KeptUnlessBlank(p.row.avatar, m.avatar)
        /\ \A k \in DOMAIN directory.members :
             Cardinality(MergedAt(directory.members[k].id)) = 1
        /\ \A j \in DOMAIN directory.merged :
             \/ \E i \in DOMAIN directory.existing :
                  directory.existing[i].id = directory.merged[j].id
             \/ MembersWith(directory.merged[j].id) # {}

\* a merge of a saved row of U1 and a row of U3, who left Slack, with the
\* members U1 (under a new name) and U2: three people, U1 under the saved name
C35_Witness ==
    /\ directory.called
    /\ Len(directory.existing) = 2
    /\ Len(directory.members) = 2
    /\ Len(directory.merged) = 3
    /\ \E i \in DOMAIN directory.existing, k \in DOMAIN directory.members,
          j \in DOMAIN directory.merged :
          /\ directory.existing[i].id = <<"U1">>
          /\ directory.members[k].id = <<"U1">>
          /\ directory.merged[j].id = <<"U1">>
          /\ directory.existing[i].row.displayName = <<"Alpha", " ", "Saved">>
          /\ directory.members[k].displayName = <<"Alpha">>
          /\ directory.merged[j].row.displayName = <<"Alpha", " ", "Saved">>
          /\ directory.merged[j].row.bDay = Some(14)
    /\ MergedAt(<<"U3">>) # {}
    /\ MergedAt(<<"U2">>) # {}


\* the message kinds that trigger for channel c on its local date at instant t:
\* the kind is enabled and its query finds somebody
TriggeredKinds(c, t) ==
    LET ch    == channels[c]
        today == LocalCivil(ch.timezone, t)
    IN  ( IF /\ ch.birthdaysEnabled
             /\ FindBirthdaysByWorkspaceAndDate(ch.workspace, today.month, today.day) # <<>>
          THEN <<"birthday">> ELSE <<>> )
        \o
        ( IF /\ ch.anniversariesEnabled
             /\ FindAnniversariesByWorkspaceAndDate(
                    ch.workspace, today.month, today.day, today.year) # <<>>
          THEN <<"anniversary">> ELSE <<>> )

\* a is the beginning of b
IsPrefixOf(a, b) == Len(a) <= Len(b) /\ a = SubSeq(b, 1, Len(a))

\* the successful PostMessage calls of process p for channel c and date d of
\* the kind, mentioning the users
PostsMentioning(p, c, d, kind, users) ==
    { r \in DOMAIN posted :
        r.by = p /\ r.channel = c /\ r.date = d /\ r.kind = kind /\ r.users = users }

\* C36 as stated: when both a birthday and an anniversary trigger for a channel
\* on the same day, the pass issues exactly two PostMessage calls, and every
\* pass issues one call for each kind that triggers and none for the others
C36_PassPostsEachTriggeredKindOnce ==
    \A p \in Procs :
        \A i \in DOMAIN run[p].result.channelDispatches :
            LET e == run[p].result.channelDispatches[i]
            IN  e.posts = TriggeredKinds(e.channel, run[p].now)

\* C36, amended: a pass never issues more than one PostMessage call of each
\* kind, issues the birthday call before the anniversary call and none for a
\* kind that is disabled or has no qualifying person; a pass that returns
\* without an error has issued one call for every kind that triggers, two when
\* both trigger, each mentioning everyone its own query found, so that a person
\* who matches both is mentioned in both; a pass in which a query or a post
\* fails returns at once, with the later calls not issued
C36_CompletedPassPostsEachTriggeredKindOnce ==
    \A p \in Procs :
        \A i \in DOMAIN run[p].result.channelDispatches :
            LET e     == run[p].result.channelDispatches[i]
                ch    == channels[e.channel]
                today == LocalCivil(ch.timezone, run[p].now)
                d     == LocalDate(ch.timezone, run[p].now)
            IN  /\ IsPrefixOf(e.posts, TriggeredKinds(e.channel, run[p].now))
                /\ ~e.err => e.posts = TriggeredKinds(e.channel, run[p].now)
                /\ (~e.err /\ e.birthdayPosted) =>
                      PostsMentioning(p, e.channel, d, "birthday",
                          Mentions(FindBirthdaysByWorkspaceAndDate(
                              ch.workspace, today.month, today.day))) # {}
                /\ (~e.err /\ e.anniversaryPosted) =>
                      PostsMentioning(p, e.channel, d, "anniversary",
                          Mentions(FindAnniversariesByWorkspaceAndDate(
                              ch.workspace, today.month, today.day, today.year))) # {}

\* a pass on c1 on 28 February, the birthday and the work anniversary of U1,
\* returned without an error after a birthday post and an anniversary post
\* that both mention U1
C36_Witness ==
    \E p \in Procs :
        \E i \in DOMAIN run[p].result.channelDispatches :
            LET e == run[p].result.channelDispatches[i]
            IN  /\ ~e.err
                /\ e.channel = "c1"
                /\ e.posts = <<"birthday", "anniversary">>
                /\ \E r \in DOMAIN posted :
                      r.by = p /\ r.channel = "c1" /\ r.kind = "birthday"
                               /\ "U1" \in Range(r.users)
                /\ \E q \in DOMAIN posted :
                      q.by = p /\ q.channel = "c1" /\ q.kind = "anniversary"
                               /\ "U1" \in Range(q.users)


\* the entries of a dispatch list that satisfy Test
EntriesWith(dispatches, Test(_)) ==
    Cardinality({ i \in DOMAIN dispatches : Test(dispatches[i]) })

HasError(e) == e.err
HasBirthdayPosted(e) == e.birthdayPosted
HasAnniversaryPosted(e) == e.anniversaryPosted

\* C37: RunWorkspaceNow runs the per-channel pass for every channel of the
\* workspace regardless of posting time, and a failing channel does not stop
\* the remaining ones: the result it returns has one ChannelDispatches entry
\* per channel in listing order, ChannelsProcessed is the number of channels,
\* ChannelsWithErrors the number of entries with an error, BirthdayPosts and
\* AnniversaryPosts the numbers of entries with the respective posted flag
C37_ManualResultReportsEveryChannel ==
    LET r   == run["manual"]
        res == r.result
    IN  (r.pc = "idle" /\ r.listed) =>
            /\ \E ws \in Workspaces : r.list = ListChannelsByWorkspace(channels, ws)
            /\ Len(res.channelDispatches) = Len(r.list)
            /\ \A i \in DOMAIN r.list : res.channelDispatches[i].channel = r.list[i]
            /\ r.attempted = r.list
            /\ res.channelsProcessed = Len(r.list)
            /\ res.channelsWithErrors = EntriesWith(res.channelDispatches, HasError)
            /\ res.birthdayPosts = EntriesWith(res.channelDispatches, HasBirthdayPosted)
            /\ res.anniversaryPosts =
                 EntriesWith(res.channelDispatches, HasAnniversaryPosted)

\* a manual run at 09:00 UTC, outside the posting minute of both channels of
\* w1, returned: the pass on c1 failed, the pass on c2 posted a birthday message
C37_Witness ==
    LET r   == run["manual"]
        res == r.result
    IN  /\ r.pc = "idle" /\ r.listed
        /\ r.now = StartDay * SecondsPerDay + 9 * 3600
        /\ r.list = <<"c1", "c2">>
        /\ ~IsDueIgnoringLog(channels, log, "c1", r.now)
        /\ ~IsDueIgnoringLog(channels, log, "c2", r.now)
        /\ Len(res.channelDispatches) = 2
        /\ res.channelDispatches[1].err
        /\ ~res.channelDispatches[2].err
        /\ res.channelDispatches[2].birthdayPosted
        /\ res.channelsProcessed = 2
        /\ res.channelsWithErrors = 1
        /\ res.birthdayPosts = 1


\* the scheduler tick has ended and none of its operations failed
TickEndedWithoutFailure ==
    LET r == run["sched"]
    IN  /\ r.pc = "idle" /\ r.listed /\ ~r.err
        /\ \A i \in DOMAIN r.result.channelDispatches : ~r.result.channelDispatches[i].err

\* the passes of the tick on channel c
PassesOn(c) ==
    { i \in DOMAIN run["sched"].result.channelDispatches :
        run["sched"].result.channelDispatches[i].channel = c }

\* a tick inside the posting minute of a channel, on a local date without a
\* log entry, lists the channel
TickListsDueChannel ==
    TickListed =>
        \A c \in ChannelIDs, k \in Days :
            (InPostingMinute(channels[c], k, clock') /\ NoEntry(c, k))
            => c \in Range(run'["sched"].list)

\* the steps of a pass come in the order query, render, post, mark: a message
\* is posted from the result of the query of its kind, rendered, and the log is
\* written after the posts of every kind that triggers
PassStepsInOrder ==
    LET r == run["sched"]
    IN  /\ \A q \in DOMAIN posted' :
             CopiesIn(q, posted') > CopiesIn(q, posted) =>
                \/ /\ q.kind = "birthday" /\ r.pc = "postBirthday"
                   /\ r.birthdays # <<>> /\ q.users = r.birthdays
                   /\ r.posts = <<>>
                \/ /\ q.kind = "anniversary" /\ r.pc = "postAnniversary"
                   /\ r.anniversaries # <<>>
                   /\ q.users = renderAnniversaryTemplate(r.anniversaries).users
                   /\ q.years = renderAnniversaryTemplate(r.anniversaries).years
        /\ log' # log =>
             /\ r.pc = "mark"
             /\ r.posts = TriggeredKinds(Channel("sched"), r.now)

\* at the end of a tick without a failure every listed channel has had one
\* pass, which posted each kind that triggers once, and has its log entry
DueChannelsPostedAndLogged ==
    TickEndedWithoutFailure =>
        \A c \in Range(run["sched"].list) :
            LET d == LocalDate(channels[c].timezone, run["sched"].now)
            IN  /\ Cardinality(PassesOn(c)) = 1
                /\ \A i \in PassesOn(c) :
                     run["sched"].result.channelDispatches[i].posts
                        = TriggeredKinds(c, run["sched"].now)
                /\ \A kind \in Range(TriggeredKinds(c, run["sched"].now)) :
                     PostCount(c, kind, d, "sched") >= 1
                /\ ~NoEntry(c, d)

\* C38: if a scheduler tick occurs at an instant inside a channel's posting
\* minute on a local date that has no log entry, and no store or post operation
\* fails, then by the end of that tick each qualifying message kind has been
\* posted exactly once, in the order query, render, post, mark, and a
\* dispatch-log entry for that local date exists
C38_DueChannelIsPostedAndLoggedByTheEndOfTheTick ==
    /\ [][TickListsDueChannel /\ PassStepsInOrder]_vars
    /\ []DueChannelsPostedAndLogged

\* the tick at 23:00 UTC of 28 February, in the posting minute of c1, ended
\* without a failure: the pass on c1 posted the birthday message, then the
\* anniversary message, and the log has the entry of c1 for that day
C38_Witness ==
    /\ TickEndedWithoutFailure
    /\ run["sched"].now = StartDay * SecondsPerDay + 23 * 3600
    /\ InPostingMinute(channels["c1"], StartDay, run["sched"].now)
    /\ \E i \in PassesOn("c1") :
          run["sched"].result.channelDispatches[i].posts = <<"birthday", "anniversary">>
    /\ PostCount("c1", "birthday", StartDay, "sched") = 1
    /\ PostCount("c1", "anniversary", StartDay, "sched") = 1
    /\ EntryCount("c1", StartDay) = 1


\* the last tick failed: ListDueChannels returned an error, or the pass on one
\* of the listed channels did
TickFailed ==
    \/ run["sched"].err
    \/ \E i \in DOMAIN run["sched"].result.channelDispatches :
          run["sched"].result.channelDispatches[i].err

\* Run takes the timer tick waiting in ticker.C
NextTick == \E t \in FirstDayInstants : SchedulerTick(t)

\* C39: a failing tick does not stop the scheduler: if ListDueChannels or any
\* channel dispatch fails during a tick, Run goes on to handle the next timer
\* tick (after the failed tick it takes the tick waiting in ticker.C); Run
\* exits only on cancellation
C39_FailingTickDoesNotStopRun ==
    /\ [](loop.returned => loop.cancelled)
    /\ []( ( /\ TickFailed
             /\ run["sched"].pc = "idle"
             /\ ~loop.returned
             /\ loop.pending
             /\ \E t \in FirstDayInstants : t > clock )
           => ENABLED NextTick )
    /\ [][ (TickFailed' /\ ~loop.cancelled) => ~loop'.returned ]_vars

\* a pass of an earlier tick failed and Run, not cancelled, has taken a later
\* tick, in which nothing has failed
C39_Witness ==
    /\ SomePassFailed
    /\ run["sched"].listed
    /\ Len(run["sched"].list) >= 1
    /\ ~TickFailed
    /\ ~loop.cancelled


\* the event is not a direct message of a person: it is not an event_callback,
\* its type is not message, its channel type is not im, its user is blank, or
\* it carries a subtype or a bot id
NotAHumanDirectMessage(e) ==
    \/ e.type # "event_callback"
    \/ e.evType # "message"
    \/ e.channelType # "im"
    \/ TrimSpace(<<e.user>>) = <<>> \/ e.user = ""
    \/ e.subtype # ""
    \/ e.botID # ""

\* C40: ProcessEvent acts only on the direct messages of people: for an event
\* that is not an event_callback, whose type is not message, whose channel type
\* is not im, whose user is blank, or that carries a subtype or a bot id, the
\* call returns without a person upsert and without a direct message, so the
\* bot's own help and acknowledgement DMs trigger no further reply; the people
\* table changes only in the upsert of a call for a person's direct message
C40_OnlyHumanDirectMessagesAreActedOn ==
    /\ [](\A k \in CallIDs :
            (calls[k].pc # "idle" /\ NotAHumanDirectMessage(calls[k].event))
            => /\ calls[k].pc = "done"
               /\ calls[k].dm = ""
               /\ calls[k].parsed = NULL
               /\ calls[k].in = NULL
               /\ ~calls[k].err)
    /\ [][ people' # people =>
             \E k \in CallIDs :
                /\ calls[k].pc = "upsert"
                /\ calls'[k].pc = "ack"
                /\ ~NotAHumanDirectMessage(calls[k].event) ]_vars

\* a person's "march 25" was saved and acknowledged, and the event of a bot
\* message with the same text was processed without an upsert and without a DM
C40_Witness ==
    \E j, k \in CallIDs :
        /\ calls[j].pc = "done"
        /\ calls[j].dm = "ack"
        /\ ~NotAHumanDirectMessage(calls[j].event)
        /\ calls[k].pc = "done"
        /\ calls[k].event.botID = "B1"
        /\ calls[k].event.text = calls[j].event.text
        /\ calls[k].dm = ""
        /\ calls[k].in = NULL

====
